---- MODULE Spec2Model ----
(***************************************************************************)
(* State-machine model of the admin / teacher dashboard's mutation         *)
(* workflows: form state, validation, the calls in flight and the cached   *)
(* collections each successful call invalidates.                           *)
(*                                                                         *)
(* Text is a sequence of one-character strings, so that trimming, length,  *)
(* substring search and number conversion are computed and not assumed.    *)
(* An optional value is a sequence of length 0 (absent) or 1 (present).    *)
(***************************************************************************)
EXTENDS Integers, Sequences, FiniteSets, TLC

(***************************************************************************)
(* Bounds of the model.                                                    *)
(***************************************************************************)
\* Most calls that may be outstanding at once (all mutations together).
MaxInFlight == 2
\* Students the server offers to the add-students dialog.
NumStudents == 101
\* Longest text entered into a phone field.
MaxPhoneLen == 13

(***************************************************************************)
(* Text helpers (JavaScript string semantics).                             *)
(***************************************************************************)
None == <<>>
Some(x) == <<x>>

Digits == <<"0", "1", "2", "3", "4", "5", "6", "7", "8", "9">>
IsDigit(c) == \E i \in 1..10 : Digits[i] = c

RECURSIVE TrimStart(_)
TrimStart(s) ==
  IF s # <<>> /\ Head(s) = " " THEN TrimStart(Tail(s)) ELSE s

RECURSIVE TrimEnd(_)
TrimEnd(s) ==
  IF s # <<>> /\ s[Len(s)] = " " THEN TrimEnd(SubSeq(s, 1, Len(s) - 1)) ELSE s

\* String.prototype.trim
Trim(s) == TrimEnd(TrimStart(s))

\* toLowerCase of one character (of the letters the model types).
LowerChar(c) ==
  LET Uppers == <<"A", "B", "C", "M", "N", "O">>
      Lowers == <<"a", "b", "c", "m", "n", "o">>
  IN IF \E i \in 1..Len(Uppers) : Uppers[i] = c
     THEN Lowers[CHOOSE i \in 1..Len(Uppers) : Uppers[i] = c]
     ELSE c
\* String.prototype.toLowerCase
ToLower(s) == [i \in 1..Len(s) |-> LowerChar(s[i])]

\* String.prototype.includes
Includes(s, sub) ==
  \E k \in 0..(Len(s) - Len(sub)) : SubSeq(s, k + 1, k + Len(sub)) = sub

RECURSIVE DigitsToNat(_, _)
DigitsToNat(s, acc) ==
  IF s = <<>> THEN acc
  ELSE DigitsToNat(Tail(s), acc * 10 + (CHOOSE d \in 0..9 : Digits[d + 1] = Head(s)))

NaN == -1000000
\* Number(string): surrounding whitespace ignored, "" is 0, a digit string is
\* its value, a leading "-" negates, anything else is NaN.
Number(s) ==
  LET t == Trim(s) IN
  IF t = <<>> THEN 0
  ELSE IF \A i \in 1..Len(t) : IsDigit(t[i]) THEN DigitsToNat(t, 0)
  ELSE IF Len(t) > 1 /\ t[1] = "-" /\ \A i \in 2..Len(t) : IsDigit(t[i])
       THEN 0 - DigitsToNat(Tail(t), 0)
  ELSE NaN
IsFiniteNumber(n) == n # NaN

RECURSIVE NatToStr(_)
NatToStr(n) ==
  IF n < 10 THEN <<Digits[n + 1]>> ELSE NatToStr(n \div 10) \o <<Digits[(n % 10) + 1]>>
\* Number.prototype.toString
ToStr(n) == IF n < 0 THEN <<"-">> \o NatToStr(0 - n) ELSE NatToStr(n)

Range(xs) == {xs[i] : i \in 1..Len(xs)}

\* Array.from(new Set(xs)): first occurrences, in order (computed by halves).
RECURSIVE Unique(_)
Unique(xs) ==
  IF Len(xs) <= 1 THEN xs
  ELSE LET h == Len(xs) \div 2
           a == Unique(SubSeq(xs, 1, h))
           b == Unique(SubSeq(xs, h + 1, Len(xs)))
           seen == Range(a)
       IN a \o SelectSeq(b, LAMBDA x : x \notin seen)

(***************************************************************************)
(* State.                                                                  *)
(***************************************************************************)
VARIABLES
  page,              \* the mounted view (route)
  mutations,         \* calls in flight, oldest first
  event,             \* the latest event: its handler and the call it answered
  toasts,            \* notifications raised by the latest event
  invalidated,       \* cached collections marked stale by the latest event
  studentsData,      \* query ["newStudents"]: optional response
  groups,            \* query ["adminGroups"]: optional list of groups
  \* AdminNewStudents
  selectedStudent, selectedGroupId, selectedLevel, isActivateOpen, activateTouched,
  \* AdminGroupDetail
  groupId,           \* route parameter (text)
  group,             \* query ["adminGroupDetail", groupId]: optional detail
  isEditOpen, isAddStudentsOpen, initialEditGroup, editErrors, editGroup,
  \* AddStudentsDialog
  searchQuery, selectedStudents, selectionError,
  \* StudentDialog and its host's state
  isStudentDialogOpen, studentToEdit, formData, createdCredentials,
  isCopying,         \* a clipboard write has not settled yet
  \* AdminTeachers and AdminGroups (one of them is mounted)
  isDialogOpen,
  editingTeacherId, teacherForm, createdTeacherCredentials,
  editingGroupId, groupForm,
  groupDetails,      \* queries ["adminGroupDetail", id]: optional detail per id
  \* AdminPayments
  isUpdateOpen, editingPayment, startDate, endDate,
  \* TeacherAssignments and the teacher's GroupDetail (one of them is mounted)
  isCreateOpen, newAssignment,
  \* AssignmentReview
  grades, feedback,
  \* TeacherAttendance and the attendance tab of the teacher's GroupDetail
  teacherGroups,     \* query ["teacherGroups"]: optional list of group ids
  attendanceGroupId, \* selectedGroupId of TeacherAttendance (text)
  selectedDate,
  rosters,           \* queries ["teacherGroupStudents", id]: optional roster per group
  attendanceByKey,   \* attendanceByKey / attendanceByDate: optional marks per key
  \* AdminTeachers: the reset-password dialog
  resetPasswordId, newPassword,
  \* Login
  phone, password, isLoading, touched

activateVars ==
  <<selectedStudent, selectedGroupId, selectedLevel, isActivateOpen, activateTouched>>
detailVars ==
  <<groupId, group, isEditOpen, isAddStudentsOpen, initialEditGroup, editErrors, editGroup>>
addVars == <<searchQuery, selectedStudents, selectionError>>
studentVars ==
  <<isStudentDialogOpen, studentToEdit, formData, createdCredentials, isCopying>>
paymentVars == <<isUpdateOpen, editingPayment, startDate, endDate>>
formVars ==
  <<studentVars, isDialogOpen, editingTeacherId, teacherForm, createdTeacherCredentials,
    editingGroupId, groupForm, groupDetails, paymentVars, isCreateOpen, newAssignment,
    grades, feedback>>
\* The state of the admin's new-students and group detail pages, and of the
\* other workflows.
enrolVars == <<studentsData, groups, activateVars, detailVars, addVars>>
attendanceVars ==
  <<teacherGroups, attendanceGroupId, selectedDate, rosters, attendanceByKey>>
resetVars == <<resetPasswordId, newPassword>>
loginVars == <<phone, password, isLoading, touched>>
vars ==
  <<page, mutations, event, toasts, invalidated, enrolVars, formVars, attendanceVars,
    resetVars, loginVars>>

(***************************************************************************)
(* What the server may answer.                                             *)
(***************************************************************************)
GroupIds == {7, 8}
\* GET /admin/groups: group 7 always has a level, group 8 may have none.
ServerGroupLists ==
  {<<[id |-> 7, level |-> l7], [id |-> 8, level |-> l8]>> :
     l7 \in {<<"B", "1">>, <<"B", "2">>}, l8 \in {<<>>, <<"B", "1">>}}
  \cup {<<[id |-> 7, level |-> <<"B", "1">>]>>}

\* GET /admin/groups/:id: a complete group with two students, the same group
\* renamed with an assistant and one student, and a group still incomplete.
ServerGroupDetails(gid) ==
  { [id |-> Number(gid), name |-> <<"M", "a">>, level |-> <<"B", "1">>,
     main_teacher |-> Some(3), assistant_teacher |-> None, students |-> <<9, 42>>],
    [id |-> Number(gid), name |-> <<"M", "b">>, level |-> <<"B", "1">>,
     main_teacher |-> Some(3), assistant_teacher |-> Some(4), students |-> <<9>>],
    [id |-> Number(gid), name |-> <<"M", "a">>, level |-> <<>>,
     main_teacher |-> None, assistant_teacher |-> None, students |-> <<>>] }

\* A student record is determined by its id: the responses below list ids and
\* the record of an id is StudentRec(id).
StudentRec(id) ==
  [id |-> id,
   full_name |->
     IF id >= 1 /\ id <= 50 THEN <<"A", "n", "a">>
     ELSE IF id >= 51 /\ id <= 100 THEN <<"B", "o", "b">>
     ELSE <<"C", "a", "o">>,
   phone |-> <<"9", "9", "8">> \o ToStr(id % 10)]
\* GET /admin/new-students: ids 0..2 are newly registered (0 is a student the
\* server reports without a usable id), the others were active before.
ServerNewStudents ==
  { [new_students |-> <<0, 1, 2>>,
     students_without_group |-> [i \in 1..(NumStudents - 2) |-> i + 2]],
    [new_students |-> <<0, 42>>, students_without_group |-> <<42, 9>>] }

(***************************************************************************)
(* Calls in flight (useMutation).  `current` marks the call an observer    *)
(* reports as pending; `mounted` whether the component that issued it is   *)
(* still mounted.                                                          *)
(***************************************************************************)
IsPending(kind) ==
  \E i \in 1..Len(mutations) :
     mutations[i].kind = kind /\ mutations[i].current /\ mutations[i].mounted

\* mutation.mutate(v): a new call starts and becomes the observer's current one.
\* `scope` is the route parameter its callbacks close over.
Mutate(kind, v, scope) ==
  /\ Len(mutations) < MaxInFlight
  /\ mutations' =
       Append([i \in 1..Len(mutations) |->
                 IF mutations[i].kind = kind
                 THEN [mutations[i] EXCEPT !.current = FALSE]
                 ELSE mutations[i]],
              [kind |-> kind, vars |-> v, scope |-> scope, current |-> TRUE,
               mounted |-> TRUE])

\* The call at position i, a call of the given kind, has been answered.
Settle(i, kind) ==
  /\ i \in 1..Len(mutations)
  /\ mutations[i].kind = kind
  /\ mutations' = [j \in 1..(Len(mutations) - 1) |->
                     IF j < i THEN mutations[j] ELSE mutations[j + 1]]

\* The query key ["adminGroupDetail", groupId] with the route parameter, a string.
KeyGroupDetail(gid) == <<"adminGroupDetail", "string">> \o gid

\* What an event leaves behind: its handler's name and arguments, the call it
\* answered (if any), the notifications it raised and the cached collections it
\* invalidated.
Emit(name, args, call, ts, keys) ==
  /\ event' = [name |-> name, args |-> args, call |-> call]
  /\ toasts' = ts
  /\ invalidated' = keys

\* A failed call's error object: response.data.message, response.data.error
\* and message, each "" when absent.
ApiErrors ==
  { [dataMessage |-> "Group is full", dataError |-> "", message |-> "Request failed"],
    [dataMessage |-> "", dataError |-> "conflict", message |-> "Request failed"],
    [dataMessage |-> "", dataError |-> "", message |-> ""] }

getApiErrorMessage(err, fallback) ==
  IF err.dataMessage # "" THEN err.dataMessage
  ELSE IF err.dataError # "" THEN err.dataError
  ELSE IF err.message # "" THEN err.message
  ELSE fallback

(***************************************************************************)
(* AdminNewStudents: the activate-student workflow.                        *)
(***************************************************************************)
ActivateSchemaOkNonNegativeId(studentId, gid, level) ==
  /\ studentId >= 0
  /\ Len(gid) >= 1
  /\ Len(level) >= 1

\* activateSchema.safeParse(...).success
ActivateSchemaOk(studentId, gid, level) ==
  /\ studentId > 0
  /\ Len(gid) >= 1
  /\ Len(level) >= 1

\* selectedStudent?.id ?? 0
SelectedStudentId == IF selectedStudent = None THEN 0 ELSE selectedStudent[1].id

isActivateValid == ActivateSchemaOk(SelectedStudentId, selectedGroupId, selectedLevel)
isActivating == IsPending("activate")
isActivateDisabledIgnoresPending == ~isActivateValid
isActivateDisabled == ~isActivateValid \/ isActivating

\* The dialog body (and so its buttons) is rendered for a selected student only.
ActivateBodyShown == isActivateOpen /\ selectedStudent # None

\* Row button "Activate" of the new-students table.
OpenActivate(s) ==
  /\ page = "newStudents"
  /\ ~isActivateOpen
  /\ ~isStudentDialogOpen
  /\ studentsData # None
  /\ s \in Range(studentsData[1].new_students)
  /\ selectedStudent' = Some(StudentRec(s))
  /\ isActivateOpen' = TRUE
  /\ selectedGroupId' = <<>>
  /\ selectedLevel' = <<>>
  /\ activateTouched' = FALSE
  /\ Emit("openActivate", <<>>, None, <<>>, {})
  /\ UNCHANGED <<page, loginVars, attendanceVars, resetVars, formVars, mutations, studentsData, groups,
                 detailVars, addVars>>

\* groups?.find(g => g.id.toString() === groupId)
FindGroup(gid) ==
  IF groups = None THEN None
  ELSE LET hits == SelectSeq(groups[1], LAMBDA g : ToStr(g.id) = gid)
       IN IF hits = <<>> THEN None ELSE Some(hits[1])

\* handleGroupChange, called by the group Select (one item per loaded group).
handleGroupChange(gid) ==
  /\ page = "newStudents"
  /\ ActivateBodyShown
  /\ ~isActivating
  /\ groups # None
  /\ gid \in {ToStr(g.id) : g \in Range(groups[1])}
  /\ activateTouched' = TRUE
  /\ selectedGroupId' = gid
  /\ selectedLevel' =
       IF FindGroup(gid) # None THEN FindGroup(gid)[1].level ELSE <<>>
  /\ Emit("handleGroupChange", <<>>, None, <<>>, {})
  /\ UNCHANGED <<page, loginVars, attendanceVars, resetVars, formVars, mutations, studentsData, groups,
                 selectedStudent, isActivateOpen, detailVars, addVars>>

\* handleActivate, called by the submit button of the activate dialog, which
\* isActivateDisabled disables.
handleActivate ==
  /\ page = "newStudents"
  /\ ActivateBodyShown
  /\ ~isActivateDisabled
  /\ IF ~isActivateValid
     THEN /\ activateTouched' = TRUE
          /\ Emit("handleActivate", <<>>, None, <<"admin.newStudents.validationError">>, {})
          /\ UNCHANGED mutations
     ELSE /\ Mutate("activate",
                    [student_id |-> selectedStudent[1].id,
                     group_id |-> Number(selectedGroupId),
                     level |-> selectedLevel],
                    <<>>)
          /\ Emit("handleActivate", <<>>, None, <<>>, {})
          /\ UNCHANGED activateTouched
  /\ UNCHANGED <<page, loginVars, attendanceVars, resetVars, formVars, studentsData, groups,
                 selectedStudent, selectedGroupId, selectedLevel, isActivateOpen,
                 detailVars, addVars>>

\* Dialog onOpenChange(false): Escape, the close icon or a click outside.
DismissActivate ==
  /\ page = "newStudents"
  /\ isActivateOpen
  /\ IF isActivating
     THEN UNCHANGED activateVars
     ELSE /\ isActivateOpen' = FALSE
          /\ selectedGroupId' = <<>>
          /\ selectedLevel' = <<>>
          /\ selectedStudent' = None
          /\ activateTouched' = FALSE
  /\ Emit("activateDialog.onOpenChange", <<>>, None, <<>>, {})
  /\ UNCHANGED <<page, loginVars, attendanceVars, resetVars, formVars, mutations, studentsData, groups,
                 detailVars, addVars>>

\* The Cancel button only closes the dialog.
CancelActivate ==
  /\ page = "newStudents"
  /\ ActivateBodyShown
  /\ ~isActivating
  /\ isActivateOpen' = FALSE
  /\ Emit("activateDialog.cancel", <<>>, None, <<>>, {})
  /\ UNCHANGED <<page, loginVars, attendanceVars, resetVars, formVars, mutations, studentsData, groups,
                 selectedStudent, selectedGroupId, selectedLevel, activateTouched,
                 detailVars, addVars>>

ActivateInvalidatesPoolOnly == {<<"newStudents">>}
ActivateInvalidates == {<<"newStudents">>, <<"adminStudents">>, <<"adminGroups">>}

\* activateMutation.onSuccess
ActivateSuccess(i) ==
  /\ Settle(i, "activate")
  /\ Emit("activateMutation.onSuccess", <<>>, Some(mutations[i].vars),
          <<"admin.newStudents.activateSuccess">>, ActivateInvalidates)
  /\ IF mutations[i].mounted
     THEN /\ isActivateOpen' = FALSE
          /\ selectedStudent' = None
          /\ selectedGroupId' = <<>>
          /\ selectedLevel' = <<>>
          /\ UNCHANGED activateTouched
     ELSE UNCHANGED activateVars
  /\ UNCHANGED <<page, loginVars, attendanceVars, resetVars, formVars, studentsData, groups,
                 detailVars, addVars>>

ActivateErrorClosesDialog(i, err) ==
  /\ Settle(i, "activate")
  /\ Emit("activateMutation.onError", <<err>>, Some(mutations[i].vars),
          <<"admin.newStudents.activateError">>, {})
  /\ isActivateOpen' = FALSE
  /\ selectedGroupId' = <<>>
  /\ selectedLevel' = <<>>
  /\ UNCHANGED <<page, loginVars, attendanceVars, resetVars, formVars, studentsData, groups,
                 selectedStudent, activateTouched, detailVars, addVars>>

\* activateMutation.onError; the handler takes no argument, `err` is the error
\* the call failed with.
ActivateError(i, err) ==
  /\ Settle(i, "activate")
  /\ Emit("activateMutation.onError", <<err>>, Some(mutations[i].vars),
          <<"admin.newStudents.activateError">>, {})
  /\ UNCHANGED <<page, loginVars, attendanceVars, resetVars, formVars, studentsData, groups,
                 activateVars, detailVars, addVars>>

\* useQuery(["newStudents"]) delivers a response (first load or re-fetch).
NewStudentsFetched(r) ==
  /\ page = "newStudents" \/ (page = "groupDetail" /\ isAddStudentsOpen)
  /\ r \in ServerNewStudents
  /\ studentsData # Some(r)
  /\ studentsData' = Some(r)
  /\ Emit("newStudents.fetched", <<>>, None, <<>>, {})
  /\ UNCHANGED <<page, loginVars, attendanceVars, resetVars, formVars, mutations, groups, activateVars,
                 detailVars, addVars>>

\* useQuery(["adminGroups"]) delivers a response (first load or re-fetch).
GroupsFetched(gl) ==
  /\ page \in {"newStudents", "groups"}
  /\ gl \in ServerGroupLists
  /\ groups # Some(gl)
  /\ groups' = Some(gl)
  /\ Emit("adminGroups.fetched", <<>>, None, <<>>, {})
  /\ UNCHANGED <<page, loginVars, attendanceVars, resetVars, formVars, mutations, studentsData,
                 activateVars, detailVars, addVars>>

(***************************************************************************)
(* AdminGroupDetail: edit dialog and student removal.                      *)
(***************************************************************************)
EmptyGroupForm ==
  [name |-> <<>>, level |-> <<>>, main_teacher_id |-> <<>>, assistant_teacher_id |-> <<>>]
NoEditErrors ==
  [name |-> "", level |-> "", main_teacher_id |-> "", assistant_teacher_id |-> ""]

\* useEffect([group, isEditOpen]): the form is (re)filled from the loaded group.
FormOfGroup(g) ==
  [name |-> g.name,
   level |-> g.level,
   main_teacher_id |-> IF g.main_teacher = None THEN <<>> ELSE ToStr(g.main_teacher[1]),
   assistant_teacher_id |->
     IF g.assistant_teacher = None THEN <<>> ELSE ToStr(g.assistant_teacher[1])]

PrefillEdit(g) ==
  /\ editGroup' = FormOfGroup(g)
  /\ initialEditGroup' = Some(FormOfGroup(g))
  /\ editErrors' = NoEditErrors

\* The rules of validateEditGroup, applied to the form values d.
validateEditGroupOf(d) ==
  LET trimmedEditName == Trim(d.name) IN
  [name |->
     IF trimmedEditName = <<>> THEN "admin.groups.detail.nameRequired"
     ELSE IF Len(trimmedEditName) < 2 THEN "admin.groups.detail.nameTooShort"
     ELSE IF Len(trimmedEditName) > 80 THEN "admin.groups.detail.nameTooLong"
     ELSE "",
   level |->
     IF Trim(d.level) = <<>> THEN "admin.groups.detail.levelRequired" ELSE "",
   main_teacher_id |->
     IF d.main_teacher_id = <<>> THEN "admin.groups.detail.mainTeacherRequired"
     ELSE "",
   assistant_teacher_id |->
     IF /\ d.assistant_teacher_id # <<>>
        /\ d.assistant_teacher_id = d.main_teacher_id
     THEN "admin.groups.detail.assistantDifferent"
     ELSE ""]

validateEditGroup == validateEditGroupOf(editGroup)

normalize(d) ==
  [name |-> Trim(d.name), level |-> Trim(d.level), main_teacher_id |-> d.main_teacher_id,
   assistant_teacher_id |-> d.assistant_teacher_id]

\* A dirty-check that compares the raw form with the raw loaded values.
isEditDirtyRaw ==
  IF initialEditGroup = None THEN FALSE
  ELSE editGroup # initialEditGroup[1]

isEditDirty ==
  IF initialEditGroup = None THEN FALSE
  ELSE normalize(editGroup) # normalize(initialEditGroup[1])

\* The page shows its content once the group is loaded; an open dialog is modal.
DetailPageShown == page = "groupDetail" /\ group # None
DetailPageFree == DetailPageShown /\ ~isEditOpen /\ ~isAddStudentsOpen

\* The "Edit" trigger: onOpenChange(true), then the prefill effect.
OpenEdit ==
  /\ DetailPageFree
  /\ isEditOpen' = TRUE
  /\ PrefillEdit(group[1])
  /\ Emit("editDialog.open", <<>>, None, <<>>, {})
  /\ UNCHANGED <<page, loginVars, attendanceVars, resetVars, formVars, mutations, studentsData, groups,
                 activateVars, groupId, group, isAddStudentsOpen, addVars>>

\* setEditGroup({...editGroup, [field]: value}), called by the field's input or
\* Select; the assistant Select's value "none" stands for no assistant.
setEditGroup(field, value) ==
  /\ DetailPageShown /\ isEditOpen
  /\ field \in {"name", "level", "main_teacher_id", "assistant_teacher_id"}
  /\ LET stored == IF field = "assistant_teacher_id" /\ value = <<"n", "o", "n", "e">>
                   THEN <<>> ELSE value
     IN /\ editGroup[field] # stored
        /\ editGroup' = [editGroup EXCEPT ![field] = stored]
  /\ Emit("setEditGroup", <<field>>, None, <<>>, {})
  /\ UNCHANGED <<page, loginVars, attendanceVars, resetVars, formVars, mutations, studentsData, groups,
                 activateVars, groupId, group, isEditOpen, isAddStudentsOpen,
                 initialEditGroup, editErrors, addVars>>

\* updateGroupMutation.mutationFn's request body.
UpdateGroupBody(data) ==
  [name |-> Trim(data.name),
   level |-> Trim(data.level),
   main_teacher_id |-> Number(data.main_teacher_id),
   assistant_teacher_id |->
     IF data.assistant_teacher_id # <<>> THEN Some(Number(data.assistant_teacher_id))
     ELSE None]

\* handleUpdateGroup, called by the form's submit button, which is disabled
\* while a call is pending and while the form is unchanged or invalid.
handleUpdateGroup ==
  /\ DetailPageShown /\ isEditOpen
  /\ ~(IsPending("updateGroupDetail") \/ ~isEditDirty \/ validateEditGroup # NoEditErrors)
  /\ editErrors' = validateEditGroup
  /\ IF validateEditGroup # NoEditErrors
     THEN /\ Emit("handleUpdateGroup", <<>>, None, <<>>, {})
          /\ UNCHANGED mutations
     ELSE IF ~isEditDirty
     THEN /\ Emit("handleUpdateGroup", <<>>, None,
                  <<"admin.groups.detail.nothingToUpdate">>, {})
          /\ UNCHANGED mutations
     ELSE /\ Mutate("updateGroupDetail",
                    UpdateGroupBody([editGroup EXCEPT !.name = Trim(editGroup.name),
                                                      !.level = Trim(editGroup.level)]),
                    groupId)
          /\ Emit("handleUpdateGroup", <<>>, None, <<>>, {})
  /\ UNCHANGED <<page, loginVars, attendanceVars, resetVars, formVars, studentsData, groups,
                 activateVars, groupId, group, isEditOpen, isAddStudentsOpen,
                 initialEditGroup, editGroup, addVars>>

\* Dialog onOpenChange(false).
DismissEdit ==
  /\ DetailPageShown /\ isEditOpen
  /\ IF IsPending("updateGroupDetail")
     THEN UNCHANGED <<isEditOpen, editErrors>>
     ELSE /\ isEditOpen' = FALSE
          /\ editErrors' = NoEditErrors
  /\ Emit("editDialog.onOpenChange", <<>>, None, <<>>, {})
  /\ UNCHANGED <<page, loginVars, attendanceVars, resetVars, formVars, mutations, studentsData, groups,
                 activateVars, groupId, group, isAddStudentsOpen, initialEditGroup,
                 editGroup, addVars>>

\* The Cancel button.
CancelEdit ==
  /\ DetailPageShown /\ isEditOpen
  /\ ~IsPending("updateGroupDetail")
  /\ isEditOpen' = FALSE
  /\ editErrors' = NoEditErrors
  /\ Emit("editDialog.cancel", <<>>, None, <<>>, {})
  /\ UNCHANGED <<page, loginVars, attendanceVars, resetVars, formVars, mutations, studentsData, groups,
                 activateVars, groupId, group, isAddStudentsOpen, initialEditGroup,
                 editGroup, addVars>>

\* updateGroupMutation.onSuccess
UpdateGroupSuccess(i) ==
  /\ Settle(i, "updateGroupDetail")
  /\ Emit("updateGroupMutation.onSuccess", <<>>, Some(mutations[i].vars),
          <<"admin.groups.updateSuccess">>, {KeyGroupDetail(mutations[i].scope)})
  /\ isEditOpen' = IF mutations[i].mounted THEN FALSE ELSE isEditOpen
  /\ UNCHANGED <<page, loginVars, attendanceVars, resetVars, formVars, studentsData, groups,
                 activateVars, groupId, group, isAddStudentsOpen, initialEditGroup,
                 editErrors, editGroup, addVars>>

\* updateGroupMutation.onError
UpdateGroupError(i, err) ==
  /\ Settle(i, "updateGroupDetail")
  /\ Emit("updateGroupMutation.onError", <<err>>, Some(mutations[i].vars),
          <<getApiErrorMessage(err, "admin.groups.updateError")>>, {})
  /\ UNCHANGED <<page, loginVars, attendanceVars, resetVars, formVars, studentsData, groups,
                 activateVars, detailVars, addVars>>

handleRemoveStudentNoConfirm(studentId, confirmed) ==
  Mutate("removeStudent", [group_id |-> Number(groupId), student_id |-> studentId], groupId)

\* confirm(...) answers `confirmed`.
handleRemoveStudent(studentId, confirmed) ==
  IF confirmed
  THEN Mutate("removeStudent", [group_id |-> Number(groupId), student_id |-> studentId],
              groupId)
  ELSE UNCHANGED mutations

\* The remove button of a student row.
ClickRemoveStudent(studentId, confirmed) ==
  /\ DetailPageFree
  /\ studentId \in Range(group[1].students)
  /\ ~IsPending("removeStudent")
  /\ handleRemoveStudent(studentId, confirmed)
  /\ Emit("handleRemoveStudent", <<studentId, confirmed>>, None, <<>>, {})
  /\ UNCHANGED <<page, loginVars, attendanceVars, resetVars, formVars, studentsData, groups,
                 activateVars, detailVars, addVars>>

\* removeStudentMutation.onSuccess
RemoveStudentSuccess(i) ==
  /\ Settle(i, "removeStudent")
  /\ Emit("removeStudentMutation.onSuccess", <<>>, Some(mutations[i].vars),
          <<"admin.groups.detail.removeSuccess">>,
          {KeyGroupDetail(mutations[i].scope)})
  /\ UNCHANGED <<page, loginVars, attendanceVars, resetVars, formVars, studentsData, groups,
                 activateVars, detailVars, addVars>>

\* removeStudentMutation.onError
RemoveStudentError(i) ==
  /\ Settle(i, "removeStudent")
  /\ Emit("removeStudentMutation.onError", <<>>, Some(mutations[i].vars),
          <<"admin.groups.detail.removeError">>, {})
  /\ UNCHANGED <<page, loginVars, attendanceVars, resetVars, formVars, studentsData, groups,
                 activateVars, detailVars, addVars>>

\* useQuery(["adminGroupDetail", groupId]) delivers a response; with the edit
\* dialog open the prefill effect runs again.
GroupDetailFetched(g) ==
  /\ page = "groupDetail"
  /\ g \in ServerGroupDetails(groupId)
  /\ group # Some(g)
  /\ group' = Some(g)
  /\ IF isEditOpen
     THEN PrefillEdit(g)
     ELSE UNCHANGED <<editGroup, initialEditGroup, editErrors>>
  /\ Emit("adminGroupDetail.fetched", <<>>, None, <<>>, {})
  /\ UNCHANGED <<page, loginVars, attendanceVars, resetVars, formVars, mutations, studentsData, groups,
                 activateVars, groupId, isEditOpen, isAddStudentsOpen, addVars>>

(***************************************************************************)
(* AddStudentsDialog.                                                      *)
(***************************************************************************)
\* isGroupIdValid, of the numeric group id Number(groupId).
isGroupIdValid == IsFiniteNumber(Number(groupId)) /\ Number(groupId) > 0

allAvailableStudents ==
  IF studentsData = None THEN <<>>
  ELSE studentsData[1].new_students \o studentsData[1].students_without_group

\* The filter's predicate for one student and a trimmed, non-empty query.
StudentMatches(st, q, qLower) ==
  Includes(ToLower(st.full_name), qLower) \/ Includes(st.phone, q)

\* filteredStudents, as the ids of its students.
filteredStudents ==
  LET q == Trim(searchQuery)
      qLower == ToLower(q)
  IN IF q = <<>> THEN allAvailableStudents
     ELSE SelectSeq(allAvailableStudents,
                    LAMBDA id : StudentMatches(StudentRec(id), q, qLower))

\* A student has a row in the list.
IsListed(studentId) ==
  /\ studentId \in Range(allAvailableStudents)
  /\ LET q == Trim(searchQuery)
     IN q = <<>> \/ StudentMatches(StudentRec(studentId), q, ToLower(q))

\* The "Add student" button of the page.
OpenAddStudents ==
  /\ DetailPageFree
  /\ isAddStudentsOpen' = TRUE
  /\ Emit("addStudents.open", <<>>, None, <<>>, {})
  /\ UNCHANGED <<page, loginVars, attendanceVars, resetVars, formVars, mutations, studentsData, groups,
                 activateVars, groupId, group, isEditOpen, initialEditGroup, editErrors,
                 editGroup, addVars>>

SetSearchQuery(q) ==
  /\ DetailPageShown /\ isAddStudentsOpen
  /\ ~IsPending("addStudents")
  /\ q # searchQuery
  /\ searchQuery' = q
  /\ Emit("searchQuery.onChange", <<>>, None, <<>>, {})
  /\ UNCHANGED <<page, loginVars, attendanceVars, resetVars, formVars, mutations, studentsData, groups,
                 activateVars, detailVars, selectedStudents, selectionError>>

\* handleToggleStudent, called by a click on the row of a listed student.
handleToggleStudent(studentId) ==
  /\ DetailPageShown /\ isAddStudentsOpen
  /\ IsListed(studentId)
  /\ selectionError' = ""
  /\ selectedStudents' =
       IF studentId \in Range(selectedStudents)
       THEN SelectSeq(selectedStudents, LAMBDA id : id # studentId)
       ELSE Append(selectedStudents, studentId)
  /\ Emit("handleToggleStudent", <<studentId>>, None, <<>>, {})
  /\ UNCHANGED <<page, loginVars, attendanceVars, resetVars, formVars, mutations, studentsData, groups,
                 activateVars, detailVars, searchQuery>>

handleSelectAllFilteredRejectsAtLimit ==
  LET next == Unique(selectedStudents \o filteredStudents) IN
  IF Len(next) >= 100
  THEN /\ selectionError' = "admin.groups.maxStudentsError"
       /\ UNCHANGED selectedStudents
  ELSE /\ selectionError' = ""
       /\ selectedStudents' = next

handleSelectAllFiltered ==
  LET next == Unique(selectedStudents \o filteredStudents) IN
  IF Len(next) > 100
  THEN /\ selectionError' = "admin.groups.maxStudentsError"
       /\ UNCHANGED selectedStudents
  ELSE /\ selectionError' = ""
       /\ selectedStudents' = next

\* The "Select all" button.
SelectAllFiltered ==
  /\ DetailPageShown /\ isAddStudentsOpen
  /\ filteredStudents # <<>>
  /\ ~IsPending("addStudents")
  /\ handleSelectAllFiltered
  /\ Emit("handleSelectAllFiltered", <<>>, None, <<>>, {})
  /\ UNCHANGED <<page, loginVars, attendanceVars, resetVars, formVars, mutations, studentsData, groups,
                 activateVars, detailVars, searchQuery>>

\* handleClearSelection, called by the "Clear" button.
handleClearSelection ==
  /\ DetailPageShown /\ isAddStudentsOpen
  /\ selectedStudents # <<>>
  /\ ~IsPending("addStudents")
  /\ selectionError' = ""
  /\ selectedStudents' = <<>>
  /\ Emit("handleClearSelection", <<>>, None, <<>>, {})
  /\ UNCHANGED <<page, loginVars, attendanceVars, resetVars, formVars, mutations, studentsData, groups,
                 activateVars, detailVars, searchQuery>>

handleAddStudentsNoLimit ==
  IF ~isGroupIdValid
  THEN /\ selectionError' = "admin.groups.invalidGroupId"
       /\ UNCHANGED mutations
  ELSE IF Len(Unique(selectedStudents)) = 0
  THEN /\ selectionError' = "admin.groups.selectAtLeastOne"
       /\ UNCHANGED mutations
  ELSE /\ Mutate("addStudents",
                 [group_id |-> Number(groupId), student_ids |-> selectedStudents], groupId)
       /\ UNCHANGED selectionError

handleAddStudents ==
  IF ~isGroupIdValid
  THEN /\ selectionError' = "admin.groups.invalidGroupId"
       /\ UNCHANGED mutations
  ELSE IF Len(Unique(selectedStudents)) = 0
  THEN /\ selectionError' = "admin.groups.selectAtLeastOne"
       /\ UNCHANGED mutations
  ELSE IF Len(Unique(selectedStudents)) > 100
  THEN /\ selectionError' = "admin.groups.maxStudentsError"
       /\ UNCHANGED mutations
  ELSE /\ Mutate("addStudents",
                 [group_id |-> Number(groupId), student_ids |-> selectedStudents], groupId)
       /\ UNCHANGED selectionError

\* The "Add" button, disabled for an invalid group id, an empty selection and
\* while a call is pending.
ClickAddStudents ==
  /\ DetailPageShown /\ isAddStudentsOpen
  /\ ~(~isGroupIdValid \/ Len(selectedStudents) = 0 \/ IsPending("addStudents"))
  /\ handleAddStudents
  /\ Emit("handleAddStudents", <<>>, None, <<>>, {})
  /\ UNCHANGED <<page, loginVars, attendanceVars, resetVars, formVars, studentsData, groups,
                 activateVars, detailVars, searchQuery, selectedStudents>>

\* handleClose: the dialog's state is reset and the parent closes it.
handleClose ==
  /\ selectionError' = ""
  /\ selectedStudents' = <<>>
  /\ searchQuery' = <<>>
  /\ isAddStudentsOpen' = FALSE

RequestCloseAddStudentsWhilePending ==
  /\ DetailPageShown /\ isAddStudentsOpen
  /\ handleClose
  /\ Emit("handleRequestClose", <<>>, None, <<>>, {})
  /\ UNCHANGED <<page, loginVars, attendanceVars, resetVars, formVars, mutations, studentsData, groups,
                 activateVars, groupId, group, isEditOpen, initialEditGroup, editErrors,
                 editGroup>>

\* handleRequestClose: Cancel, Escape, the close icon or a click outside.
RequestCloseAddStudents ==
  /\ DetailPageShown /\ isAddStudentsOpen
  /\ IF IsPending("addStudents")
     THEN UNCHANGED <<addVars, isAddStudentsOpen>>
     ELSE handleClose
  /\ Emit("handleRequestClose", <<>>, None, <<>>, {})
  /\ UNCHANGED <<page, loginVars, attendanceVars, resetVars, formVars, mutations, studentsData, groups,
                 activateVars, groupId, group, isEditOpen, initialEditGroup, editErrors,
                 editGroup>>

\* addStudentsMutation.onSuccess
AddStudentsSuccess(i) ==
  /\ Settle(i, "addStudents")
  /\ Emit("addStudentsMutation.onSuccess", <<>>, Some(mutations[i].vars),
          <<"admin.groups.addSuccess">>,
          {KeyGroupDetail(mutations[i].scope), <<"newStudents">>})
  /\ IF mutations[i].mounted
     THEN handleClose
     ELSE UNCHANGED <<addVars, isAddStudentsOpen>>
  /\ UNCHANGED <<page, loginVars, attendanceVars, resetVars, formVars, studentsData, groups,
                 activateVars, groupId, group, isEditOpen, initialEditGroup, editErrors,
                 editGroup>>

\* addStudentsMutation.onError
AddStudentsError(i, err) ==
  /\ Settle(i, "addStudents")
  /\ Emit("addStudentsMutation.onError", <<err>>, Some(mutations[i].vars),
          <<getApiErrorMessage(err, "admin.groups.updateError")>>, {})
  /\ UNCHANGED <<page, loginVars, attendanceVars, resetVars, formVars, studentsData, groups,
                 activateVars, detailVars, addVars>>

(***************************************************************************)
(* Patterns of the zod schemas and the values typed into the forms.        *)
(***************************************************************************)
\* /^\d{12}$/
\* The pattern without its anchors, /\d{12}/: 12 digits in a row somewhere.
IsPhone12Unanchored(s) ==
  \E k \in 1..Len(s) : k + 11 <= Len(s) /\ \A i \in k..(k + 11) : IsDigit(s[i])

IsPhone12(s) == Len(s) = 12 /\ \A i \in 1..Len(s) : IsDigit(s[i])

\* /^\d{4}-\d{2}-\d{2}$/
IsDateText(s) ==
  Len(s) = 10 /\ \A i \in 1..Len(s) : IF i \in {5, 8} THEN s[i] = "-" ELSE IsDigit(s[i])

\* z.string().email(): one "@" after a non-empty local part, no whitespace, and a
\* domain whose last label has at least two characters.
IsEmail(s) ==
  \E p \in 2..Len(s) :
     /\ s[p] = "@"
     /\ \A i \in 1..Len(s) : (s[i] = "@" => i = p) /\ s[i] # " "
     /\ s[1] # "." /\ s[p - 1] # "."
     /\ \E d \in (p + 2)..(Len(s) - 2) :
           s[d] = "." /\ \A j \in (d + 1)..Len(s) : s[j] # "."

\* new Date(v).toISOString().split('T')[0] of a UTC timestamp: its date part.
ToIsoDate(v) == SubSeq(v, 1, 10)

PhoneText == <<"9", "9", "8", "9", "0", "1", "2", "3", "4", "5", "6", "7">>
DateText == <<"2", "0", "2", "6", "-", "0", "1", "-", "3", "1">>
EmailText == <<"a", "@", "b", ".", "c", "o">>

\* The page's own dialogs are modal: a trigger on the page can be used only
\* while none of them is open.
NoDialogOpen ==
  /\ ~isActivateOpen
  /\ ~isStudentDialogOpen
  /\ ~isDialogOpen
  /\ createdTeacherCredentials = None
  /\ ~isUpdateOpen
  /\ ~isCreateOpen
  /\ resetPasswordId = None

(***************************************************************************)
(* StudentDialog, hosted by AdminStudents and AdminNewStudents.            *)
(***************************************************************************)

\* Rows of GET /admin/students.
AdminStudentRows ==
  { [id |-> 9, name |-> <<"A", "n", "a">>, email |-> EmailText, phone |-> PhoneText,
     payment_expiry |-> DateText \o <<"T", "0", "0", ":", "0", "0", "Z">>,
     status |-> "ACTIVE"],
    [id |-> 42, name |-> <<"B", "o", "b">>, email |-> <<>>, phone |-> <<"9", "9", "8">>,
     payment_expiry |-> <<>>, status |-> "NEW_STUDENT"] }

\* useEffect([studentToEdit, isOpen]): the form follows the student to edit, and
\* is the initial form when there is none.
StudentFormOf(st) ==
  IF st = None
  THEN [name |-> <<>>, email |-> <<>>, phone |-> <<>>, payment_expiry |-> <<>>,
        status |-> "NEW_STUDENT"]
  ELSE [name |-> st[1].name,
        email |-> st[1].email,
        phone |-> st[1].phone,
        payment_expiry |->
          IF st[1].payment_expiry # <<>> THEN ToIsoDate(st[1].payment_expiry) ELSE <<>>,
        status |-> st[1].status]

\* studentSchema.safeParse(d).success
studentSchemaOk(d) ==
  /\ Trim(d.name) # <<>>
  /\ IsPhone12(d.phone)
  /\ Trim(d.email) = <<>> \/ IsEmail(d.email)
  /\ Trim(d.payment_expiry) = <<>> \/ IsDateText(d.payment_expiry)

StudentDialog_isSaving == IsPending("createStudent") \/ IsPending("updateStudent")

\* The form is replaced by the credentials view once an account was created.
StudentFormShown ==
  page \in {"students", "newStudents"} /\ isStudentDialogOpen /\ createdCredentials = None

\* "Add student": handleAddNew of AdminStudents, the inline handler of
\* AdminNewStudents (which never has a student to edit).
handleAddNew ==
  /\ page \in {"students", "newStudents"}
  /\ NoDialogOpen
  /\ studentToEdit' = None
  /\ isStudentDialogOpen' = TRUE
  /\ formData' = StudentFormOf(None)
  /\ Emit("handleAddNew", <<>>, None, <<>>, {})
  /\ UNCHANGED <<page, loginVars, attendanceVars, resetVars, mutations, enrolVars, createdCredentials,
                 isCopying, isDialogOpen, editingTeacherId, teacherForm,
                 createdTeacherCredentials, editingGroupId, groupForm, groupDetails,
                 paymentVars, isCreateOpen, newAssignment, grades, feedback>>

\* The edit button of a row of the students table.
handleEdit(student) ==
  /\ page = "students"
  /\ NoDialogOpen
  /\ student \in AdminStudentRows
  /\ studentToEdit' = Some(student)
  /\ isStudentDialogOpen' = TRUE
  /\ formData' = StudentFormOf(Some(student))
  /\ Emit("handleEdit", <<>>, None, <<>>, {})
  /\ UNCHANGED <<page, loginVars, attendanceVars, resetVars, mutations, enrolVars, createdCredentials,
                 isCopying, isDialogOpen, editingTeacherId, teacherForm,
                 createdTeacherCredentials, editingGroupId, groupForm, groupDetails,
                 paymentVars, isCreateOpen, newAssignment, grades, feedback>>

\* onChange / onValueChange of one field; the status Select exists when editing.
SetFormData(field, value) ==
  /\ StudentFormShown
  /\ ~StudentDialog_isSaving
  /\ field \in {"name", "email", "phone", "payment_expiry", "status"}
  /\ field = "status" => studentToEdit # None
  /\ formData[field] # value
  /\ formData' = [formData EXCEPT ![field] = value]
  /\ Emit("formData.onChange", <<>>, None, <<>>, {})
  /\ UNCHANGED <<page, loginVars, attendanceVars, resetVars, mutations, enrolVars, isStudentDialogOpen,
                 studentToEdit, createdCredentials, isCopying, isDialogOpen,
                 editingTeacherId, teacherForm, createdTeacherCredentials, editingGroupId,
                 groupForm, groupDetails, paymentVars, isCreateOpen, newAssignment, grades,
                 feedback>>

\* handleSubmit, called by the Save button, which is disabled while saving and
\* while the form does not pass the schema.
StudentDialog_handleSubmit ==
  /\ StudentFormShown
  /\ ~(StudentDialog_isSaving \/ ~studentSchemaOk(formData))
  /\ IF ~studentSchemaOk(formData)
     THEN /\ Emit("StudentDialog.handleSubmit", <<>>, None, <<"admin.groups.fixFields">>, {})
          /\ UNCHANGED mutations
     ELSE /\ IF studentToEdit # None
             THEN Mutate("updateStudent", [id |-> studentToEdit[1].id, data |-> formData],
                         <<>>)
             ELSE Mutate("createStudent", [data |-> formData], <<>>)
          /\ Emit("StudentDialog.handleSubmit", <<>>, None, <<>>, {})
  /\ UNCHANGED <<page, loginVars, attendanceVars, resetVars, enrolVars, formVars>>

\* handleClose, then onClose of the host and the form effect.
StudentDialog_handleClose ==
  /\ createdCredentials' = None
  /\ isStudentDialogOpen' = FALSE
  /\ formData' = StudentFormOf(studentToEdit)

\* handleClose is the dialog's onOpenChange, its Cancel button (disabled while
\* saving) and the Done button of the credentials view.
CloseStudentDialog(via) ==
  /\ page \in {"students", "newStudents"}
  /\ isStudentDialogOpen
  /\ via \in {"onOpenChange", "cancel", "done"}
  /\ via = "cancel" => createdCredentials = None /\ ~StudentDialog_isSaving
  /\ via = "done" => createdCredentials # None
  /\ StudentDialog_handleClose
  /\ Emit("StudentDialog.handleClose", <<via>>, None, <<>>, {})
  /\ UNCHANGED <<page, loginVars, attendanceVars, resetVars, mutations, enrolVars, studentToEdit,
                 isCopying, isDialogOpen, editingTeacherId, teacherForm,
                 createdTeacherCredentials, editingGroupId, groupForm, groupDetails,
                 paymentVars, isCreateOpen, newAssignment, grades, feedback>>

\* createStudentMutation.onSuccess; its toast waits for the clipboard.
CreateStudentSuccess(i) ==
  /\ Settle(i, "createStudent")
  /\ Emit("createStudentMutation.onSuccess", <<>>, Some(mutations[i].vars), <<>>,
          {<<"adminStudents">>, <<"newStudents">>})
  /\ createdCredentials' = Some("s3cret")
  /\ isCopying' = TRUE
  /\ UNCHANGED <<page, loginVars, attendanceVars, resetVars, enrolVars, isStudentDialogOpen,
                 studentToEdit, formData, isDialogOpen, editingTeacherId, teacherForm,
                 createdTeacherCredentials, editingGroupId, groupForm, groupDetails,
                 paymentVars, isCreateOpen, newAssignment, grades, feedback>>

\* navigator.clipboard.writeText(...) settles; only fulfilment has a callback.
ClipboardSettled(fulfilled) ==
  /\ page \in {"students", "newStudents"}
  /\ isCopying
  /\ isCopying' = FALSE
  /\ Emit("clipboard.writeText.settled", <<>>, None,
          IF fulfilled THEN <<"admin.students.createSuccess">> ELSE <<>>, {})
  /\ UNCHANGED <<page, loginVars, attendanceVars, resetVars, mutations, enrolVars, isStudentDialogOpen,
                 studentToEdit, formData, createdCredentials, isDialogOpen,
                 editingTeacherId, teacherForm, createdTeacherCredentials, editingGroupId,
                 groupForm, groupDetails, paymentVars, isCreateOpen, newAssignment, grades,
                 feedback>>

\* updateStudentMutation.onSuccess
UpdateStudentSuccess(i) ==
  /\ Settle(i, "updateStudent")
  /\ Emit("updateStudentMutation.onSuccess", <<>>, Some(mutations[i].vars),
          <<"admin.students.updateSuccess">>,
          {<<"adminStudents">>, <<"newStudents">>})
  /\ StudentDialog_handleClose
  /\ UNCHANGED <<page, loginVars, attendanceVars, resetVars, enrolVars, studentToEdit, isCopying,
                 isDialogOpen, editingTeacherId, teacherForm, createdTeacherCredentials,
                 editingGroupId, groupForm, groupDetails, paymentVars, isCreateOpen,
                 newAssignment, grades, feedback>>

\* createStudentMutation.onError and updateStudentMutation.onError
StudentDialog_onError(i) ==
  /\ \E kind \in {"createStudent", "updateStudent"} :
       /\ Settle(i, kind)
       /\ Emit(IF kind = "createStudent" THEN "createStudentMutation.onError"
               ELSE "updateStudentMutation.onError",
               <<>>, Some(mutations[i].vars),
               <<IF kind = "createStudent" THEN "admin.students.createError"
                 ELSE "admin.students.updateError">>,
               {})
  /\ UNCHANGED <<page, loginVars, attendanceVars, resetVars, enrolVars, formVars>>

(***************************************************************************)
(* AdminTeachers: create and edit a teacher.                               *)
(***************************************************************************)
\* Rows of GET /admin/teachers-list.
TeacherRows ==
  { [id |-> 3, name |-> <<"C", "a", "o">>, email |-> EmailText, phone |-> PhoneText,
     position |-> <<"M", "a", "i", "n">>],
    [id |-> 4, name |-> <<"A", "n", "a">>, email |-> <<>>, phone |-> <<"9", "9", "8">>,
     position |-> <<"A", "s", "s", "i", "s", "t", "a", "n", "t">>] }

EmptyTeacherForm ==
  [name |-> <<>>, email |-> <<>>, phone |-> <<>>, teacher_type |-> "main"]

\* teacherSchema.safeParse(d).success
teacherSchemaOk(d) ==
  /\ Trim(d.name) # <<>>
  /\ IsEmail(Trim(d.email))
  /\ Trim(d.phone) # <<>>
  /\ d.teacher_type \in {"main", "assistant"}

AdminTeachers_isSaving == IsPending("createTeacher") \/ IsPending("updateTeacher")

\* The "Add teacher" trigger.
AdminTeachers_openCreateDialog ==
  /\ page = "teachers"
  /\ NoDialogOpen
  /\ editingTeacherId' = None
  /\ teacherForm' = EmptyTeacherForm
  /\ isDialogOpen' = TRUE
  /\ Emit("AdminTeachers.openCreateDialog", <<>>, None, <<>>, {})
  /\ UNCHANGED <<page, loginVars, attendanceVars, resetVars, mutations, enrolVars, studentVars,
                 createdTeacherCredentials, editingGroupId, groupForm, groupDetails,
                 paymentVars, isCreateOpen, newAssignment, grades, feedback>>

\* The edit button of a row.
AdminTeachers_openEditDialog(teacher) ==
  /\ page = "teachers"
  /\ NoDialogOpen
  /\ teacher \in TeacherRows
  /\ editingTeacherId' = Some(teacher.id)
  /\ teacherForm' =
       [name |-> teacher.name,
        email |-> teacher.email,
        phone |-> teacher.phone,
        teacher_type |->
          IF ToLower(teacher.position) = <<"m", "a", "i", "n">> THEN "main"
          ELSE "assistant"]
  /\ isDialogOpen' = TRUE
  /\ Emit("AdminTeachers.openEditDialog", <<>>, None, <<>>, {})
  /\ UNCHANGED <<page, loginVars, attendanceVars, resetVars, mutations, enrolVars, studentVars,
                 createdTeacherCredentials, editingGroupId, groupForm, groupDetails,
                 paymentVars, isCreateOpen, newAssignment, grades, feedback>>

\* onChange / onValueChange of one field.
SetTeacherForm(field, value) ==
  /\ page = "teachers" /\ isDialogOpen
  /\ ~AdminTeachers_isSaving
  /\ field \in {"name", "email", "phone", "teacher_type"}
  /\ teacherForm[field] # value
  /\ teacherForm' = [teacherForm EXCEPT ![field] = value]
  /\ Emit("teacherForm.onChange", <<>>, None, <<>>, {})
  /\ UNCHANGED <<page, loginVars, attendanceVars, resetVars, mutations, enrolVars, studentVars,
                 isDialogOpen, editingTeacherId, createdTeacherCredentials, editingGroupId,
                 groupForm, groupDetails, paymentVars, isCreateOpen, newAssignment, grades,
                 feedback>>

\* handleSubmit, called by the Save button, which is disabled while saving and
\* while the form does not pass the schema.
AdminTeachers_handleSubmit ==
  /\ page = "teachers" /\ isDialogOpen
  /\ ~(AdminTeachers_isSaving \/ ~teacherSchemaOk(teacherForm))
  /\ IF ~teacherSchemaOk(teacherForm)
     THEN /\ Emit("AdminTeachers.handleSubmit", <<>>, None, <<"admin.groups.fixFields">>, {})
          /\ UNCHANGED mutations
     ELSE /\ IF editingTeacherId # None
             THEN Mutate("updateTeacher",
                         [id |-> editingTeacherId[1], data |-> teacherForm], <<>>)
             ELSE Mutate("createTeacher", [data |-> teacherForm], <<>>)
          /\ Emit("AdminTeachers.handleSubmit", <<>>, None, <<>>, {})
  /\ UNCHANGED <<page, loginVars, attendanceVars, resetVars, enrolVars, formVars>>

AdminTeachers_closeDialog ==
  /\ isDialogOpen' = FALSE
  /\ editingTeacherId' = None

\* Dialog onOpenChange(false) is setIsDialogOpen itself.
DismissTeacherDialog ==
  /\ page = "teachers" /\ isDialogOpen
  /\ isDialogOpen' = FALSE
  /\ Emit("AdminTeachers.dialog.onOpenChange", <<>>, None, <<>>, {})
  /\ UNCHANGED <<page, loginVars, attendanceVars, resetVars, mutations, enrolVars, studentVars,
                 editingTeacherId, teacherForm, createdTeacherCredentials, editingGroupId,
                 groupForm, groupDetails, paymentVars, isCreateOpen, newAssignment, grades,
                 feedback>>

\* The Cancel button.
CancelTeacherDialog ==
  /\ page = "teachers" /\ isDialogOpen
  /\ ~AdminTeachers_isSaving
  /\ AdminTeachers_closeDialog
  /\ Emit("AdminTeachers.closeDialog", <<>>, None, <<>>, {})
  /\ UNCHANGED <<page, loginVars, attendanceVars, resetVars, mutations, enrolVars, studentVars,
                 teacherForm, createdTeacherCredentials, editingGroupId, groupForm,
                 groupDetails, paymentVars, isCreateOpen, newAssignment, grades, feedback>>

\* createTeacherMutation.onSuccess
CreateTeacherSuccess(i) ==
  /\ Settle(i, "createTeacher")
  /\ Emit("createTeacherMutation.onSuccess", <<>>, Some(mutations[i].vars),
          <<"admin.teachers.createdSuccess">>, {<<"adminTeachersList">>})
  /\ AdminTeachers_closeDialog
  /\ createdTeacherCredentials' = Some("s3cret")
  /\ UNCHANGED <<page, loginVars, attendanceVars, resetVars, enrolVars, studentVars, teacherForm,
                 editingGroupId, groupForm, groupDetails, paymentVars, isCreateOpen,
                 newAssignment, grades, feedback>>

\* updateTeacherMutation.onSuccess
UpdateTeacherSuccess(i) ==
  /\ Settle(i, "updateTeacher")
  /\ Emit("updateTeacherMutation.onSuccess", <<>>, Some(mutations[i].vars),
          <<"admin.teachers.updateSuccess">>, {<<"adminTeachersList">>})
  /\ AdminTeachers_closeDialog
  /\ UNCHANGED <<page, loginVars, attendanceVars, resetVars, enrolVars, studentVars, teacherForm,
                 createdTeacherCredentials, editingGroupId, groupForm, groupDetails,
                 paymentVars, isCreateOpen, newAssignment, grades, feedback>>

\* createTeacherMutation.onError and updateTeacherMutation.onError
AdminTeachers_onError(i) ==
  /\ \E kind \in {"createTeacher", "updateTeacher"} :
       /\ Settle(i, kind)
       /\ Emit(IF kind = "createTeacher" THEN "createTeacherMutation.onError"
               ELSE "updateTeacherMutation.onError",
               <<>>, Some(mutations[i].vars),
               <<IF kind = "createTeacher" THEN "admin.teachers.createError"
                 ELSE "admin.teachers.updateError">>,
               {})
  /\ UNCHANGED <<page, loginVars, attendanceVars, resetVars, enrolVars, formVars>>

\* The credentials dialog: onOpenChange(false) or its Done button.
CloseTeacherCredentials ==
  /\ page = "teachers"
  /\ createdTeacherCredentials # None
  /\ createdTeacherCredentials' = None
  /\ Emit("createdTeacherCredentials.close", <<>>, None, <<>>, {})
  /\ UNCHANGED <<page, loginVars, attendanceVars, resetVars, mutations, enrolVars, studentVars,
                 isDialogOpen, editingTeacherId, teacherForm, editingGroupId, groupForm,
                 groupDetails, paymentVars, isCreateOpen, newAssignment, grades, feedback>>

(***************************************************************************)
(* AdminGroups: create and edit a group from the list.                     *)
(***************************************************************************)
\* A schema whose name check does not trim.
groupSchemaOkNameUntrimmed(d) ==
  /\ d.name # <<>>
  /\ Trim(d.level) # <<>>
  /\ Trim(d.main_teacher_id) # <<>>

\* groupSchema.safeParse(d).success
groupSchemaOk(d) ==
  /\ Trim(d.name) # <<>>
  /\ Trim(d.level) # <<>>
  /\ Trim(d.main_teacher_id) # <<>>

\* fieldErrors: per field, the message of the schema's first issue, "" when the
\* field passes.
fieldErrors(d) ==
  [name |-> IF Trim(d.name) = <<>> THEN "Group name is required" ELSE "",
   level |-> IF Trim(d.level) = <<>> THEN "Level is required" ELSE "",
   main_teacher_id |->
     IF Trim(d.main_teacher_id) = <<>> THEN "Main teacher is required" ELSE "",
   assistant_teacher_id |-> ""]

AdminGroups_isSaving == IsPending("createGroup") \/ IsPending("updateGroup")

\* useEffect([editingGroupId, groupDetail, isDialogOpen]): the form it leaves.
GroupFormEffect(eid, detail, form) ==
  IF eid # None /\ detail # None THEN FormOfGroup(detail[1])
  ELSE IF eid = None THEN EmptyGroupForm
  ELSE form

\* The "Create group" trigger.
AdminGroups_openCreateDialog ==
  /\ page = "groups"
  /\ NoDialogOpen
  /\ editingGroupId' = None
  /\ groupForm' = EmptyGroupForm
  /\ isDialogOpen' = TRUE
  /\ Emit("AdminGroups.openCreateDialog", <<>>, None, <<>>, {})
  /\ UNCHANGED <<page, loginVars, attendanceVars, resetVars, mutations, enrolVars, studentVars,
                 editingTeacherId, teacherForm, createdTeacherCredentials, groupDetails,
                 paymentVars, isCreateOpen, newAssignment, grades, feedback>>

\* The edit button of a row of the loaded list.
AdminGroups_openEditDialog(id) ==
  /\ page = "groups"
  /\ NoDialogOpen
  /\ groups # None
  /\ id \in {g.id : g \in Range(groups[1])}
  /\ editingGroupId' = Some(id)
  /\ isDialogOpen' = TRUE
  /\ groupForm' = GroupFormEffect(Some(id), groupDetails[id], groupForm)
  /\ Emit("AdminGroups.openEditDialog", <<>>, None, <<>>, {})
  /\ UNCHANGED <<page, loginVars, attendanceVars, resetVars, mutations, enrolVars, studentVars,
                 editingTeacherId, teacherForm, createdTeacherCredentials, groupDetails,
                 paymentVars, isCreateOpen, newAssignment, grades, feedback>>

\* The detail of the group being edited arrives (first load or re-fetch).
EditedGroupFetched(g) ==
  /\ page = "groups" /\ isDialogOpen
  /\ editingGroupId # None
  /\ g \in ServerGroupDetails(ToStr(editingGroupId[1]))
  /\ groupDetails[editingGroupId[1]] # Some(g)
  /\ groupDetails' = [groupDetails EXCEPT ![editingGroupId[1]] = Some(g)]
  /\ groupForm' = GroupFormEffect(editingGroupId, Some(g), groupForm)
  /\ Emit("AdminGroups.adminGroupDetail.fetched", <<>>, None, <<>>, {})
  /\ UNCHANGED <<page, loginVars, attendanceVars, resetVars, mutations, enrolVars, studentVars,
                 isDialogOpen, editingTeacherId, teacherForm, createdTeacherCredentials,
                 editingGroupId, paymentVars, isCreateOpen, newAssignment, grades,
                 feedback>>

\* onChange / onValueChange of one field; the assistant Select's value "none"
\* stands for no assistant.
SetGroupForm(field, value) ==
  /\ page = "groups" /\ isDialogOpen
  /\ ~AdminGroups_isSaving
  /\ field \in {"name", "level", "main_teacher_id", "assistant_teacher_id"}
  /\ LET stored == IF field = "assistant_teacher_id" /\ value = <<"n", "o", "n", "e">>
                   THEN <<>> ELSE value
     IN /\ groupForm[field] # stored
        /\ groupForm' = [groupForm EXCEPT ![field] = stored]
  /\ Emit("groupForm.onChange", <<>>, None, <<>>, {})
  /\ UNCHANGED <<page, loginVars, attendanceVars, resetVars, mutations, enrolVars, studentVars,
                 isDialogOpen, editingTeacherId, teacherForm, createdTeacherCredentials,
                 editingGroupId, groupDetails, paymentVars, isCreateOpen, newAssignment,
                 grades, feedback>>

\* The request body of createGroupMutation and updateGroupMutation.
GroupBody(data) ==
  [name |-> data.name,
   level |-> data.level,
   main_teacher_id |-> Number(data.main_teacher_id),
   assistant_teacher_id |->
     IF data.assistant_teacher_id # <<>> THEN Some(Number(data.assistant_teacher_id))
     ELSE None]

\* handleSubmit, called by the Save button, which is disabled while saving and
\* while the form does not pass the schema.
AdminGroups_handleSubmit ==
  /\ page = "groups" /\ isDialogOpen
  /\ ~(~groupSchemaOk(groupForm) \/ AdminGroups_isSaving)
  /\ IF ~groupSchemaOk(groupForm)
     THEN /\ Emit("AdminGroups.handleSubmit", <<>>, None, <<"admin.groups.fixFields">>, {})
          /\ UNCHANGED mutations
     ELSE /\ IF editingGroupId # None
             THEN Mutate("updateGroup",
                         [id |-> editingGroupId[1], body |-> GroupBody(groupForm)], <<>>)
             ELSE Mutate("createGroup", [body |-> GroupBody(groupForm)], <<>>)
          /\ Emit("AdminGroups.handleSubmit", <<>>, None, <<>>, {})
  /\ UNCHANGED <<page, loginVars, attendanceVars, resetVars, enrolVars, formVars>>

\* closeDialog, then the form effect (no group is being edited any more).
AdminGroups_closeDialog ==
  /\ isDialogOpen' = FALSE
  /\ editingGroupId' = None
  /\ groupForm' = GroupFormEffect(None, None, groupForm)

\* Dialog onOpenChange(false) is setIsDialogOpen itself; the form effect runs
\* with the group still being edited.
DismissGroupDialog ==
  /\ page = "groups" /\ isDialogOpen
  /\ isDialogOpen' = FALSE
  /\ groupForm' = GroupFormEffect(editingGroupId,
                       IF editingGroupId = None THEN None
                       ELSE groupDetails[editingGroupId[1]],
                       groupForm)
  /\ Emit("AdminGroups.dialog.onOpenChange", <<>>, None, <<>>, {})
  /\ UNCHANGED <<page, loginVars, attendanceVars, resetVars, mutations, enrolVars, studentVars,
                 editingTeacherId, teacherForm, createdTeacherCredentials, editingGroupId,
                 groupDetails, paymentVars, isCreateOpen, newAssignment, grades, feedback>>

\* The Cancel button.
CancelGroupDialog ==
  /\ page = "groups" /\ isDialogOpen
  /\ ~AdminGroups_isSaving
  /\ AdminGroups_closeDialog
  /\ Emit("AdminGroups.closeDialog", <<>>, None, <<>>, {})
  /\ UNCHANGED <<page, loginVars, attendanceVars, resetVars, mutations, enrolVars, studentVars,
                 editingTeacherId, teacherForm, createdTeacherCredentials, groupDetails,
                 paymentVars, isCreateOpen, newAssignment, grades, feedback>>

\* createGroupMutation.onSuccess
CreateGroupSuccess(i) ==
  /\ Settle(i, "createGroup")
  /\ Emit("createGroupMutation.onSuccess", <<>>, Some(mutations[i].vars),
          <<"admin.groups.createSuccess">>, {<<"adminGroups">>})
  /\ AdminGroups_closeDialog
  /\ UNCHANGED <<page, loginVars, attendanceVars, resetVars, enrolVars, studentVars, editingTeacherId,
                 teacherForm, createdTeacherCredentials, groupDetails, paymentVars,
                 isCreateOpen, newAssignment, grades, feedback>>

\* updateGroupMutation.onSuccess of AdminGroups; its second key is
\* ["adminGroupDetail", editingGroupId] with the id state (a number or null) of
\* the render it runs in.
ListUpdateGroupSuccess(i) ==
  /\ Settle(i, "updateGroup")
  /\ Emit("AdminGroups.updateGroupMutation.onSuccess", <<>>, Some(mutations[i].vars),
          <<"admin.groups.updateSuccess">>,
          {<<"adminGroups">>,
           IF editingGroupId = None THEN <<"adminGroupDetail", "null">>
           ELSE <<"adminGroupDetail", "number">> \o ToStr(editingGroupId[1])})
  /\ AdminGroups_closeDialog
  /\ UNCHANGED <<page, loginVars, attendanceVars, resetVars, enrolVars, studentVars, editingTeacherId,
                 teacherForm, createdTeacherCredentials, groupDetails, paymentVars,
                 isCreateOpen, newAssignment, grades, feedback>>

\* createGroupMutation.onError and updateGroupMutation.onError of AdminGroups
AdminGroups_onError(i) ==
  /\ \E kind \in {"createGroup", "updateGroup"} :
       /\ Settle(i, kind)
       /\ Emit(IF kind = "createGroup" THEN "createGroupMutation.onError"
               ELSE "AdminGroups.updateGroupMutation.onError",
               <<>>, Some(mutations[i].vars),
               <<IF kind = "createGroup" THEN "admin.groups.createError"
                 ELSE "admin.groups.updateError">>,
               {})
  /\ UNCHANGED <<page, loginVars, attendanceVars, resetVars, enrolVars, formVars>>

(***************************************************************************)
(* AdminPayments: update a payment period.                                 *)
(***************************************************************************)
\* Rows of GET /admin/payments.
PaymentRows ==
  { [id |-> 21, start_date |-> Some(DateText), end_date |-> Some(DateText)],
    [id |-> 22, start_date |-> None, end_date |-> None] }

\* The "Update payment" button of a row.
OpenUpdatePayment(p) ==
  /\ page = "payments"
  /\ NoDialogOpen
  /\ p \in PaymentRows
  /\ editingPayment' = Some(p)
  /\ startDate' = (IF p.start_date = None THEN <<>> ELSE p.start_date[1])
  /\ endDate' = (IF p.end_date = None THEN <<>> ELSE p.end_date[1])
  /\ isUpdateOpen' = TRUE
  /\ Emit("updatePayment.open", <<>>, None, <<>>, {})
  /\ UNCHANGED <<page, loginVars, attendanceVars, resetVars, mutations, enrolVars, studentVars,
                 isDialogOpen, editingTeacherId, teacherForm, createdTeacherCredentials,
                 editingGroupId, groupForm, groupDetails, isCreateOpen, newAssignment,
                 grades, feedback>>

\* The date inputs are rendered for a payment only, and stay enabled while a
\* call is pending.
SetStartDate(v) ==
  /\ page = "payments" /\ isUpdateOpen /\ editingPayment # None
  /\ startDate # v
  /\ startDate' = v
  /\ Emit("setStartDate", <<>>, None, <<>>, {})
  /\ UNCHANGED <<page, loginVars, attendanceVars, resetVars, mutations, enrolVars, studentVars,
                 isDialogOpen, editingTeacherId, teacherForm, createdTeacherCredentials,
                 editingGroupId, groupForm, groupDetails, isUpdateOpen, editingPayment,
                 endDate, isCreateOpen, newAssignment, grades, feedback>>

SetEndDate(v) ==
  /\ page = "payments" /\ isUpdateOpen /\ editingPayment # None
  /\ endDate # v
  /\ endDate' = v
  /\ Emit("setEndDate", <<>>, None, <<>>, {})
  /\ UNCHANGED <<page, loginVars, attendanceVars, resetVars, mutations, enrolVars, studentVars,
                 isDialogOpen, editingTeacherId, teacherForm, createdTeacherCredentials,
                 editingGroupId, groupForm, groupDetails, isUpdateOpen, editingPayment,
                 startDate, isCreateOpen, newAssignment, grades, feedback>>

handleCloseUpdate(open) ==
  /\ isUpdateOpen' = open
  /\ IF ~open
     THEN /\ editingPayment' = None
          /\ startDate' = <<>>
          /\ endDate' = <<>>
     ELSE UNCHANGED <<editingPayment, startDate, endDate>>

\* Dialog onOpenChange(false), or the Cancel button (disabled while pending).
CloseUpdatePayment(via) ==
  /\ page = "payments"
  /\ isUpdateOpen
  /\ via \in {"onOpenChange", "cancel"}
  /\ via = "cancel" => editingPayment # None /\ ~IsPending("updatePayment")
  /\ handleCloseUpdate(FALSE)
  /\ Emit("handleCloseUpdate", <<via>>, None, <<>>, {})
  /\ UNCHANGED <<page, loginVars, attendanceVars, resetVars, mutations, enrolVars, studentVars,
                 isDialogOpen, editingTeacherId, teacherForm, createdTeacherCredentials,
                 editingGroupId, groupForm, groupDetails, isCreateOpen, newAssignment,
                 grades, feedback>>

handleSaveWithoutDatesCheck ==
  IF editingPayment = None
  THEN /\ Emit("handleSave", <<>>, None, <<>>, {})
       /\ UNCHANGED mutations
  ELSE /\ Mutate("updatePayment",
                 [id |-> editingPayment[1].id, start_date |-> startDate,
                  end_date |-> endDate],
                 <<>>)
       /\ Emit("handleSave", <<>>, None, <<>>, {})

handleSave ==
  IF editingPayment = None
  THEN /\ Emit("handleSave", <<>>, None, <<>>, {})
       /\ UNCHANGED mutations
  ELSE IF startDate = <<>> \/ endDate = <<>>
  THEN /\ Emit("handleSave", <<>>, None, <<"admin.payments.datesRequired">>, {})
       /\ UNCHANGED mutations
  ELSE /\ Mutate("updatePayment",
                 [id |-> editingPayment[1].id, start_date |-> startDate,
                  end_date |-> endDate],
                 <<>>)
       /\ Emit("handleSave", <<>>, None, <<>>, {})

\* The Save button.
ClickSavePayment ==
  /\ page = "payments" /\ isUpdateOpen /\ editingPayment # None
  /\ ~IsPending("updatePayment")
  /\ handleSave
  /\ UNCHANGED <<page, loginVars, attendanceVars, resetVars, enrolVars, formVars>>

\* updatePaymentMutation.onSuccess
UpdatePaymentSuccess(i) ==
  /\ Settle(i, "updatePayment")
  /\ Emit("updatePaymentMutation.onSuccess", <<>>, Some(mutations[i].vars),
          <<"admin.payments.updateSuccess">>,
          {<<"adminPayments">>, <<"adminPaymentStats">>})
  /\ isUpdateOpen' = FALSE
  /\ editingPayment' = None
  /\ startDate' = <<>>
  /\ endDate' = <<>>
  /\ UNCHANGED <<page, loginVars, attendanceVars, resetVars, enrolVars, studentVars, isDialogOpen,
                 editingTeacherId, teacherForm, createdTeacherCredentials, editingGroupId,
                 groupForm, groupDetails, isCreateOpen, newAssignment, grades, feedback>>

\* updatePaymentMutation.onError
UpdatePaymentError(i) ==
  /\ Settle(i, "updatePayment")
  /\ Emit("updatePaymentMutation.onError", <<>>, Some(mutations[i].vars),
          <<"admin.payments.updateError">>, {})
  /\ UNCHANGED <<page, loginVars, attendanceVars, resetVars, enrolVars, formVars>>

(***************************************************************************)
(* TeacherAssignments and the teacher's GroupDetail: create an assignment. *)
(***************************************************************************)
EmptyAssignment == [title |-> <<>>, content |-> <<>>, due_date |-> <<>>, group_id |-> <<>>]

\* The assignments page, or the teacher's group page, which shows its content
\* for a numeric route parameter.
AssignmentPageShown ==
  \/ page = "teacherAssignments"
  \/ page = "teacherGroupDetail" /\ IsFiniteNumber(Number(groupId))

\* The "Create assignment" button.
OpenCreateAssignment ==
  /\ AssignmentPageShown
  /\ NoDialogOpen
  /\ isCreateOpen' = TRUE
  /\ Emit("setIsCreateOpen", <<>>, None, <<>>, {})
  /\ UNCHANGED <<page, loginVars, attendanceVars, resetVars, mutations, enrolVars, studentVars,
                 isDialogOpen, editingTeacherId, teacherForm, createdTeacherCredentials,
                 editingGroupId, groupForm, groupDetails, paymentVars, newAssignment,
                 grades, feedback>>

\* onChange / onValueChange of one field; the group Select exists on the
\* assignments page only.  The fields stay enabled while a call is pending.
SetNewAssignment(field, value) ==
  /\ AssignmentPageShown /\ isCreateOpen
  /\ field \in {"title", "content", "due_date", "group_id"}
  /\ field = "group_id" => page = "teacherAssignments"
  /\ newAssignment[field] # value
  /\ newAssignment' = [newAssignment EXCEPT ![field] = value]
  /\ Emit("setNewAssignment", <<>>, None, <<>>, {})
  /\ UNCHANGED <<page, loginVars, attendanceVars, resetVars, mutations, enrolVars, studentVars,
                 isDialogOpen, editingTeacherId, teacherForm, createdTeacherCredentials,
                 editingGroupId, groupForm, groupDetails, paymentVars, isCreateOpen, grades,
                 feedback>>

\* Dialog onOpenChange(false), or the Cancel button (disabled while pending).
CloseCreateAssignment(via) ==
  /\ AssignmentPageShown /\ isCreateOpen
  /\ via \in {"onOpenChange", "cancel"}
  /\ via = "cancel" =>
       ~IsPending("createAssignment") /\ ~IsPending("createGroupAssignment")
  /\ isCreateOpen' = FALSE
  /\ Emit("setIsCreateOpen", <<via>>, None, <<>>, {})
  /\ UNCHANGED <<page, loginVars, attendanceVars, resetVars, mutations, enrolVars, studentVars,
                 isDialogOpen, editingTeacherId, teacherForm, createdTeacherCredentials,
                 editingGroupId, groupForm, groupDetails, paymentVars, newAssignment,
                 grades, feedback>>

\* The Save button of TeacherAssignments (disabled while a call is pending).
TeacherAssignments_onSave ==
  /\ page = "teacherAssignments"
  /\ isCreateOpen
  /\ ~IsPending("createAssignment")
  /\ IF \/ newAssignment.group_id = <<>>
        \/ newAssignment.title = <<>>
        \/ newAssignment.content = <<>>
        \/ newAssignment.due_date = <<>>
     THEN /\ Emit("TeacherAssignments.save", <<>>, None,
                  <<"teacher.assignments.validationError">>, {})
          /\ UNCHANGED mutations
     ELSE /\ Mutate("createAssignment",
                    [title |-> newAssignment.title, content |-> newAssignment.content,
                     group_id |-> Number(newAssignment.group_id),
                     due_date |-> newAssignment.due_date],
                    <<>>)
          /\ Emit("TeacherAssignments.save", <<>>, None, <<>>, {})
  /\ UNCHANGED <<page, loginVars, attendanceVars, resetVars, enrolVars, formVars>>

\* The Save button of the teacher's GroupDetail (disabled while a call is
\* pending); group.id is the route's group.
GroupDetail_onSave ==
  /\ page = "teacherGroupDetail"
  /\ AssignmentPageShown /\ isCreateOpen
  /\ ~IsPending("createGroupAssignment")
  /\ IF \/ newAssignment.title = <<>>
        \/ newAssignment.content = <<>>
        \/ newAssignment.due_date = <<>>
     THEN /\ Emit("GroupDetail.save", <<>>, None, <<"teacher.assignments.createError">>, {})
          /\ UNCHANGED mutations
     ELSE /\ Mutate("createGroupAssignment",
                    [title |-> newAssignment.title, content |-> newAssignment.content,
                     group_id |-> Number(groupId), due_date |-> newAssignment.due_date],
                    groupId)
          /\ Emit("GroupDetail.save", <<>>, None, <<>>, {})
  /\ UNCHANGED <<page, loginVars, attendanceVars, resetVars, enrolVars, formVars>>

\* createAssignmentMutation.onSuccess of TeacherAssignments
CreateAssignmentSuccess(i) ==
  /\ Settle(i, "createAssignment")
  /\ Emit("TeacherAssignments.createAssignmentMutation.onSuccess", <<>>,
          Some(mutations[i].vars), <<"teacher.assignments.createSuccess">>,
          {<<"teacherAssignments">>})
  /\ isCreateOpen' = FALSE
  /\ newAssignment' = EmptyAssignment
  /\ UNCHANGED <<page, loginVars, attendanceVars, resetVars, enrolVars, studentVars, isDialogOpen,
                 editingTeacherId, teacherForm, createdTeacherCredentials, editingGroupId,
                 groupForm, groupDetails, paymentVars, grades, feedback>>

\* createAssignmentMutation.onSuccess of the teacher's GroupDetail; its key is
\* ["teacherAssignments", groupIdNum].
CreateGroupAssignmentSuccess(i) ==
  /\ Settle(i, "createGroupAssignment")
  /\ Emit("GroupDetail.createAssignmentMutation.onSuccess", <<>>, Some(mutations[i].vars),
          <<"teacher.assignments.createSuccess">>,
          {<<"teacherAssignments", "number">> \o ToStr(Number(mutations[i].scope))})
  /\ isCreateOpen' = FALSE
  /\ newAssignment' = EmptyAssignment
  /\ UNCHANGED <<page, loginVars, attendanceVars, resetVars, enrolVars, studentVars, isDialogOpen,
                 editingTeacherId, teacherForm, createdTeacherCredentials, editingGroupId,
                 groupForm, groupDetails, paymentVars, grades, feedback>>

\* createAssignmentMutation.onError of either page
CreateAssignmentError(i) ==
  /\ \E kind \in {"createAssignment", "createGroupAssignment"} : Settle(i, kind)
  /\ Emit("createAssignmentMutation.onError", <<>>, Some(mutations[i].vars),
          <<"teacher.assignments.createError">>, {})
  /\ UNCHANGED <<page, loginVars, attendanceVars, resetVars, enrolVars, formVars>>

(***************************************************************************)
(* AssignmentReview: grade a submission.                                   *)
(***************************************************************************)
\* The route parameter of the review page.
assignmentId == <<"5">>

\* GET /teacher/assignments/:id/submissions: one ungraded, one graded.
Submissions == <<[id |-> 11, grade |-> None], [id |-> 12, grade |-> Some(70)]>>
SubmissionIds == {Submissions[k].id : k \in 1..Len(Submissions)}

\* onGradeChange(Number(e.target.value)) of a card's number input.
handleGradeChange(submissionId, text) ==
  /\ page = "assignmentReview"
  /\ submissionId \in SubmissionIds
  /\ ~IsPending("gradeSubmission")
  /\ grades[submissionId] # Some(Number(text))
  /\ grades' = [grades EXCEPT ![submissionId] = Some(Number(text))]
  /\ Emit("handleGradeChange", <<>>, None, <<>>, {})
  /\ UNCHANGED <<page, loginVars, attendanceVars, resetVars, mutations, enrolVars, studentVars,
                 isDialogOpen, editingTeacherId, teacherForm, createdTeacherCredentials,
                 editingGroupId, groupForm, groupDetails, paymentVars, isCreateOpen,
                 newAssignment, feedback>>

handleFeedbackChange(submissionId, text) ==
  /\ page = "assignmentReview"
  /\ submissionId \in SubmissionIds
  /\ ~IsPending("gradeSubmission")
  /\ feedback[submissionId] # Some(text)
  /\ feedback' = [feedback EXCEPT ![submissionId] = Some(text)]
  /\ Emit("handleFeedbackChange", <<>>, None, <<>>, {})
  /\ UNCHANGED <<page, loginVars, attendanceVars, resetVars, mutations, enrolVars, studentVars,
                 isDialogOpen, editingTeacherId, teacherForm, createdTeacherCredentials,
                 editingGroupId, groupForm, groupDetails, paymentVars, isCreateOpen,
                 newAssignment, grades>>

\* grades[submission.id] ?? submission.grade
gradeValue(submissionId) ==
  IF grades[submissionId] # None THEN grades[submissionId]
  ELSE Submissions[CHOOSE k \in 1..Len(Submissions) :
                      Submissions[k].id = submissionId].grade

\* onSubmit of a card, called by its grade button (disabled while saving).
SubmissionCard_onSubmit(submissionId) ==
  /\ page = "assignmentReview"
  /\ submissionId \in SubmissionIds
  /\ ~IsPending("gradeSubmission")
  /\ IF gradeValue(submissionId) = None \/ gradeValue(submissionId) = Some(NaN)
     THEN /\ Emit("SubmissionCard.onSubmit", <<submissionId>>, None,
                  <<"teacher.assignments.gradeValidationError">>, {})
          /\ UNCHANGED mutations
     ELSE /\ Mutate("gradeSubmission",
                    [submissionId |-> submissionId,
                     grade |-> gradeValue(submissionId)[1],
                     teacher_feedback |->
                       IF feedback[submissionId] # None THEN feedback[submissionId][1]
                       ELSE <<>>],
                    assignmentId)
          /\ Emit("SubmissionCard.onSubmit", <<submissionId>>, None, <<>>, {})
  /\ UNCHANGED <<page, loginVars, attendanceVars, resetVars, enrolVars, formVars>>

\* gradeSubmissionMutation.onSuccess; `message` is the response's message and
\* the first key is ["teacherAssignmentSubmissions", assignmentIdNum].
GradeSuccess(i, message) ==
  /\ Settle(i, "gradeSubmission")
  /\ Emit("gradeSubmissionMutation.onSuccess", <<>>, Some(mutations[i].vars),
          <<IF message # "" THEN message ELSE "teacher.assignments.gradeSuccess">>,
          {<<"teacherAssignmentSubmissions", "number">>
              \o ToStr(Number(mutations[i].scope)),
           <<"teacherAssignments">>})
  /\ UNCHANGED <<page, loginVars, attendanceVars, resetVars, enrolVars, formVars>>

\* gradeSubmissionMutation.onError
GradeError(i) ==
  /\ Settle(i, "gradeSubmission")
  /\ Emit("gradeSubmissionMutation.onError", <<>>, Some(mutations[i].vars),
          <<"teacher.assignments.gradeError">>, {})
  /\ UNCHANGED <<page, loginVars, attendanceVars, resetVars, enrolVars, formVars>>

(***************************************************************************)
(* TeacherAttendance, and the attendance tab of the teacher's GroupDetail. *)
(***************************************************************************)
\* GET /teacher/groups lists groups 7 and 8.  GET /teacher/groups/:id/students:
\* group 7 may gain or lose a student between two fetches, group 8 has one.
AttendanceGroups == {<<"7">>, <<"8">>}
ServerRosters(gid) == IF gid = <<"7">> THEN {<<1>>, <<1, 2>>} ELSE {<<4>>}
RosterIds == UNION {Range(r) : r \in UNION {ServerRosters(g) : g \in AttendanceGroups}}
AttendanceDates == {DateText, <<"2", "0", "2", "6", "-", "0", "2", "-", "0", "1">>}

\* The group whose attendance is shown: the selected group of TeacherAttendance,
\* the route's group on GroupDetail.
attendanceGroup == IF page = "teacherAttendance" THEN attendanceGroupId ELSE groupId

\* students: the data of useQuery(["teacherGroupStudents", groupIdNum]), which
\* is enabled for a numeric group id only.
students ==
  IF attendanceGroup \in AttendanceGroups /\ IsFiniteNumber(Number(attendanceGroup))
  THEN rosters[attendanceGroup]
  ELSE None

\* attendanceForSelection / attendanceForDate: the marks of the shown key, an
\* empty record when the key has none.
attendanceForSelection ==
  IF attendanceGroup \in AttendanceGroups
       /\ attendanceByKey[<<attendanceGroup, selectedDate>>] # None
  THEN attendanceByKey[<<attendanceGroup, selectedDate>>][1]
  ELSE [s \in RosterIds |-> "unmarked"]

\* The effect that initializes the attendance of a key once its students are
\* loaded: everyone present, unless the key has marks already.
InitAttendance(abk, gid, date, studs) ==
  IF gid = <<>> \/ studs = None \/ studs = Some(<<>>) \/ abk[<<gid, date>>] # None
  THEN abk
  ELSE [abk EXCEPT ![<<gid, date>>] =
          Some([s \in RosterIds |->
                  IF s \in Range(studs[1]) THEN "present" ELSE "unmarked"])]

\* The counts shown above the roster: Object.values(attendanceForSelection)
\* holds the marks of the key, whoever they belong to.
presentCount == Cardinality({s \in RosterIds : attendanceForSelection[s] = "present"})
absentCount == Cardinality({s \in RosterIds : attendanceForSelection[s] = "absent"})
totalStudents == IF students = None THEN 0 ELSE Len(students[1])
unmarkedCount ==
  IF totalStudents - presentCount - absentCount > 0
  THEN totalStudents - presentCount - absentCount
  ELSE 0

\* The attendance controls are on the page; the create-assignment dialog of
\* GroupDetail is modal.
AttendanceShown ==
  \/ page = "teacherAttendance"
  \/ page = "teacherGroupDetail" /\ AssignmentPageShown /\ NoDialogOpen

\* useQuery(["teacherGroups"]) of TeacherAttendance delivers its response; the
\* effect selects the first group when none is selected.
TeacherGroupsFetched ==
  /\ page = "teacherAttendance"
  /\ teacherGroups = None
  /\ teacherGroups' = Some(<<7, 8>>)
  /\ attendanceGroupId' =
       (IF attendanceGroupId # <<>> THEN attendanceGroupId ELSE ToStr(7))
  /\ attendanceByKey' =
       InitAttendance(attendanceByKey, attendanceGroupId', selectedDate,
                      rosters[attendanceGroupId'])
  /\ Emit("teacherGroups.fetched", <<>>, None, <<>>, {})
  /\ UNCHANGED <<page, loginVars, mutations, enrolVars, formVars, resetVars, selectedDate, rosters>>

\* The group Select of TeacherAttendance (disabled while the groups load).
setSelectedGroupId(gid) ==
  /\ page = "teacherAttendance"
  /\ teacherGroups # None
  /\ gid \in {ToStr(teacherGroups[1][k]) : k \in 1..Len(teacherGroups[1])}
  /\ gid # attendanceGroupId
  /\ attendanceGroupId' = gid
  /\ attendanceByKey' = InitAttendance(attendanceByKey, gid, selectedDate, rosters[gid])
  /\ Emit("setSelectedGroupId", <<>>, None, <<>>, {})
  /\ UNCHANGED <<page, loginVars, mutations, enrolVars, formVars, resetVars, teacherGroups,
                 selectedDate, rosters>>

\* The date input of either page.
setSelectedDate(d) ==
  /\ AttendanceShown
  /\ d # selectedDate
  /\ selectedDate' = d
  /\ attendanceByKey' = InitAttendance(attendanceByKey, attendanceGroup, d, students)
  /\ Emit("setSelectedDate", <<>>, None, <<>>, {})
  /\ UNCHANGED <<page, loginVars, mutations, enrolVars, formVars, resetVars, teacherGroups,
                 attendanceGroupId, rosters>>

\* useQuery(["teacherGroupStudents", groupIdNum]) delivers a response (first
\* load or re-fetch) for the shown group.
StudentsFetched(r) ==
  /\ page \in {"teacherAttendance", "teacherGroupDetail"}
  /\ attendanceGroup \in AttendanceGroups
  /\ IsFiniteNumber(Number(attendanceGroup))
  /\ r \in ServerRosters(attendanceGroup)
  /\ students # Some(r)
  /\ rosters' = [rosters EXCEPT ![attendanceGroup] = Some(r)]
  /\ attendanceByKey' =
       InitAttendance(attendanceByKey, attendanceGroup, selectedDate, Some(r))
  /\ Emit("teacherGroupStudents.fetched", <<>>, None, <<>>, {})
  /\ UNCHANGED <<page, loginVars, mutations, enrolVars, formVars, resetVars, teacherGroups,
                 attendanceGroupId, selectedDate>>

\* setStudentPresence, called by the Present and Absent buttons of a row.
setStudentPresence(studentId, present) ==
  /\ AttendanceShown
  /\ students # None
  /\ studentId \in Range(students[1])
  /\ attendanceForSelection[studentId] # (IF present THEN "present" ELSE "absent")
  /\ attendanceByKey' =
       [attendanceByKey EXCEPT ![<<attendanceGroup, selectedDate>>] =
          Some([attendanceForSelection EXCEPT
                  ![studentId] = IF present THEN "present" ELSE "absent"])]
  /\ Emit("setStudentPresence", <<>>, None, <<>>, {})
  /\ UNCHANGED <<page, loginVars, mutations, enrolVars, formVars, resetVars, teacherGroups,
                 attendanceGroupId, selectedDate, rosters>>

\* onClick of the Save button of either page: the button is there (and enabled)
\* for a loaded, non-empty roster while no save is pending; the handler returns
\* early without a group or students.
SaveAttendanceFirstStudentOnly ==
  /\ AttendanceShown
  /\ students # None /\ students[1] # <<>>
  /\ ~IsPending("saveAttendance")
  /\ Number(attendanceGroup) \notin {0, NaN}
  /\ Mutate("saveAttendance",
            [group_id |-> Number(attendanceGroup),
             date |-> selectedDate,
             attendance |->
               [k \in 1..1 |->
                  [student_id |-> students[1][k],
                   is_present |-> attendanceForSelection[students[1][k]] # "absent"]]],
            <<>>)
  /\ Emit("saveAttendance.onClick", <<>>, None, <<>>, {})
  /\ UNCHANGED <<page, loginVars, enrolVars, formVars, attendanceVars, resetVars>>

SaveAttendance ==
  /\ AttendanceShown
  /\ students # None /\ students[1] # <<>>
  /\ ~IsPending("saveAttendance")
  /\ Number(attendanceGroup) \notin {0, NaN}
  /\ Mutate("saveAttendance",
            [group_id |-> Number(attendanceGroup),
             date |-> selectedDate,
             attendance |->
               [k \in 1..Len(students[1]) |->
                  [student_id |-> students[1][k],
                   is_present |-> attendanceForSelection[students[1][k]] # "absent"]]],
            <<>>)
  /\ Emit("saveAttendance.onClick", <<>>, None, <<>>, {})
  /\ UNCHANGED <<page, loginVars, enrolVars, formVars, attendanceVars, resetVars>>

\* saveAttendanceMutation.onSuccess; `message` is the response's message.
SaveAttendanceSuccess(i, message) ==
  /\ Settle(i, "saveAttendance")
  /\ Emit("saveAttendanceMutation.onSuccess", <<>>, Some(mutations[i].vars),
          <<IF message # "" THEN message ELSE "teacher.attendance.saveSuccess">>, {})
  /\ UNCHANGED <<page, loginVars, enrolVars, formVars, attendanceVars, resetVars>>

\* saveAttendanceMutation.onError
SaveAttendanceError(i) ==
  /\ Settle(i, "saveAttendance")
  /\ Emit("saveAttendanceMutation.onError", <<>>, Some(mutations[i].vars),
          <<"teacher.attendance.saveError">>, {})
  /\ UNCHANGED <<page, loginVars, enrolVars, formVars, attendanceVars, resetVars>>

(***************************************************************************)
(* AdminTeachers: reset a teacher's password.                              *)
(***************************************************************************)
\* setResetPasswordId: the row's reset button sets the teacher's id; the
\* dialog's onOpenChange(false) and its Cancel button set null.
setResetPasswordId(v) ==
  /\ page = "teachers"
  /\ IF v = None THEN resetPasswordId # None
     ELSE NoDialogOpen /\ v[1] \in {tr.id : tr \in TeacherRows}
  /\ resetPasswordId' = v
  /\ Emit("setResetPasswordId", <<>>, None, <<>>, {})
  /\ UNCHANGED <<page, loginVars, mutations, enrolVars, formVars, attendanceVars, newPassword>>

\* The password input of the dialog.
setNewPassword(v) ==
  /\ page = "teachers"
  /\ resetPasswordId # None
  /\ v # newPassword
  /\ newPassword' = v
  /\ Emit("setNewPassword", <<>>, None, <<>>, {})
  /\ UNCHANGED <<page, loginVars, mutations, enrolVars, formVars, attendanceVars, resetPasswordId>>

\* handleResetPassword, called by the dialog's save button (disabled while a
\* reset is pending).
handleResetPassword ==
  /\ page = "teachers"
  /\ resetPasswordId # None
  /\ ~IsPending("resetPassword")
  /\ IF Len(newPassword) < 6
     THEN /\ Emit("handleResetPassword", <<>>, None,
                  <<"admin.teachers.passwordMinLength">>, {})
          /\ UNCHANGED mutations
     ELSE /\ Mutate("resetPassword",
                    [id |-> resetPasswordId[1], password |-> newPassword], <<>>)
          /\ Emit("handleResetPassword", <<>>, None, <<>>, {})
  /\ UNCHANGED <<page, loginVars, enrolVars, formVars, attendanceVars, resetVars>>

\* resetPasswordMutation.onSuccess
ResetPasswordSuccess(i) ==
  /\ Settle(i, "resetPassword")
  /\ Emit("resetPasswordMutation.onSuccess", <<>>, Some(mutations[i].vars),
          <<"admin.teachers.passwordUpdateSuccess">>, {})
  /\ resetPasswordId' = None
  /\ newPassword' = <<>>
  /\ UNCHANGED <<page, loginVars, enrolVars, formVars, attendanceVars>>

\* resetPasswordMutation.onError
ResetPasswordError(i) ==
  /\ Settle(i, "resetPassword")
  /\ Emit("resetPasswordMutation.onError", <<>>, Some(mutations[i].vars),
          <<"admin.teachers.resetPasswordError">>, {})
  /\ UNCHANGED <<page, loginVars, enrolVars, formVars, attendanceVars, resetVars>>

(***************************************************************************)
(* Login.                                                                  *)
(***************************************************************************)
\* loginSchema.safeParse(d).success
loginSchemaOk(d) ==
  /\ IsPhone12(d.phone)
  /\ Len(d.password) >= 6

isFormValid == loginSchemaOk([phone |-> phone, password |-> password])
isSubmitDisabled == isLoading \/ ~isFormValid

\* value.replace(/\D/g, "")
RECURSIVE RemoveNonDigits(_)
RemoveNonDigits(s) ==
  IF s = <<>> THEN <<>>
  ELSE (IF IsDigit(Head(s)) THEN <<Head(s)>> ELSE <<>>) \o RemoveNonDigits(Tail(s))

\* onChange of the phone input; `value` is the text of the field after the
\* edit (e.target.value).  The state keeps its digits, at most 12 of them.
Login_phoneOnChange(value) ==
  /\ page = "login"
  /\ touched' = [touched EXCEPT !.phone = TRUE]
  /\ LET digits == RemoveNonDigits(value) IN
       phone' = SubSeq(digits, 1, IF Len(digits) < 12 THEN Len(digits) ELSE 12)
  /\ Emit("Login.phone.onChange", <<value>>, None, <<>>, {})
  /\ UNCHANGED <<page, mutations, enrolVars, formVars, attendanceVars, resetVars, password,
                 isLoading>>

\* onChange of the password input.
Login_passwordOnChange(value) ==
  /\ page = "login"
  /\ touched' = [touched EXCEPT !.password = TRUE]
  /\ password' = value
  /\ Emit("Login.password.onChange", <<>>, None, <<>>, {})
  /\ UNCHANGED <<page, mutations, enrolVars, formVars, attendanceVars, resetVars, phone,
                 isLoading>>

\* handleSubmit, the form's onSubmit; the submit button is disabled while
\* loading and while the form does not pass the schema.  login(phone, password)
\* is a call in flight until it resolves or rejects.
Login_handleSubmit ==
  /\ page = "login"
  /\ ~isSubmitDisabled
  /\ IF ~isFormValid
     THEN /\ touched' = [phone |-> TRUE, password |-> TRUE]
          /\ UNCHANGED <<mutations, isLoading>>
     ELSE /\ isLoading' = TRUE
          /\ Mutate("login", [phone |-> phone, password |-> password], <<>>)
          /\ UNCHANGED touched
  /\ Emit("Login.handleSubmit", <<>>, None, <<>>, {})
  /\ UNCHANGED <<page, enrolVars, formVars, attendanceVars, resetVars, phone, password>>

\* await login(...) resolved: the notification, then navigate by the role of
\* the stored user (`user` is None when the store has no user).
LoginResolved(i, user) ==
  /\ page = "login"
  /\ Settle(i, "login")
  /\ page' = (IF user = Some("Admin") THEN "/admin"
              ELSE IF user = Some("Teacher") THEN "/teacher"
              ELSE "/")
  /\ isLoading' = FALSE
  /\ Emit("login.resolved", <<>>, Some(mutations[i].vars), <<"login.successDescription">>,
          {})
  /\ UNCHANGED <<enrolVars, formVars, attendanceVars, resetVars, phone, password, touched>>

\* await login(...) rejected.
LoginRejected(i) ==
  /\ page = "login"
  /\ Settle(i, "login")
  /\ isLoading' = FALSE
  /\ Emit("login.rejected", <<>>, Some(mutations[i].vars), <<"login.errorDescription">>, {})
  /\ UNCHANGED <<page, enrolVars, formVars, attendanceVars, resetVars, phone, password,
                 touched>>

(***************************************************************************)
(* Initial state and specifications.                                       *)
(***************************************************************************)
\* The state on mount, but for the page, its route parameter, the loaded group
\* and the latest event.
InitShared ==
  /\ mutations = <<>>
  /\ toasts = <<>>
  /\ invalidated = {}
  /\ studentsData = None
  /\ groups = None
  /\ selectedStudent = None
  /\ selectedGroupId = <<>>
  /\ selectedLevel = <<>>
  /\ isActivateOpen = FALSE
  /\ activateTouched = FALSE
  /\ isEditOpen = FALSE
  /\ isAddStudentsOpen = FALSE
  /\ initialEditGroup = None
  /\ editErrors = NoEditErrors
  /\ editGroup = EmptyGroupForm
  /\ searchQuery = <<>>
  /\ selectedStudents = <<>>
  /\ selectionError = ""
  /\ isStudentDialogOpen = FALSE
  /\ studentToEdit = None
  /\ formData = StudentFormOf(None)
  /\ createdCredentials = None
  /\ isCopying = FALSE
  /\ isDialogOpen = FALSE
  /\ editingTeacherId = None
  /\ teacherForm = EmptyTeacherForm
  /\ createdTeacherCredentials = None
  /\ editingGroupId = None
  /\ groupForm = EmptyGroupForm
  /\ groupDetails = [id \in GroupIds |-> None]
  /\ isUpdateOpen = FALSE
  /\ editingPayment = None
  /\ startDate = <<>>
  /\ endDate = <<>>
  /\ isCreateOpen = FALSE
  /\ newAssignment = EmptyAssignment
  /\ grades = [id \in SubmissionIds |-> None]
  /\ feedback = [id \in SubmissionIds |-> None]
  /\ teacherGroups = None
  /\ attendanceGroupId = <<>>
  /\ selectedDate = DateText
  /\ rosters = [g \in AttendanceGroups |-> None]
  /\ attendanceByKey = [k \in AttendanceGroups \X AttendanceDates |-> None]
  /\ resetPasswordId = None
  /\ newPassword = <<>>
  /\ phone = <<>>
  /\ password = <<>>
  /\ isLoading = FALSE
  /\ touched = [phone |-> FALSE, password |-> FALSE]

\* The admin's group detail page: the levels, teachers and assistants offered
\* by the Selects are those of GET /admin/levels and
\* GET /admin/teacher-and-assistants.
NextGroupDetail ==
  \/ \E g \in UNION {ServerGroupDetails(ToStr(r)) : r \in GroupIds} : GroupDetailFetched(g)
  \/ OpenEdit
  \/ \E n \in {<<" ">>, <<"M">>, <<"M", "a", " ">>, <<"M", "b">>} : setEditGroup("name", n)
  \/ \E l \in {<<"B", "1">>, <<"B", "2">>} : setEditGroup("level", l)
  \/ \E v \in {<<"3">>, <<"4">>} : setEditGroup("main_teacher_id", v)
  \/ \E v \in {<<"4">>, <<"n", "o", "n", "e">>} : setEditGroup("assistant_teacher_id", v)
  \/ handleUpdateGroup
  \/ DismissEdit
  \/ CancelEdit
  \/ \E i \in 1..MaxInFlight : UpdateGroupSuccess(i)
  \/ \E i \in 1..MaxInFlight, err \in ApiErrors : UpdateGroupError(i, err)
  \/ \E st \in {9, 42}, c \in BOOLEAN : ClickRemoveStudent(st, c)
  \/ \E i \in 1..MaxInFlight : RemoveStudentSuccess(i)
  \/ \E i \in 1..MaxInFlight : RemoveStudentError(i)

\* The group detail page, mounted for one of the groups.
InitGroupDetail ==
  /\ page = "groupDetail"
  /\ groupId \in {ToStr(g) : g \in GroupIds}
  /\ group = None
  /\ event = [name |-> "mount", args |-> <<>>, call |-> None]
  /\ InitShared
SpecGroupDetail == InitGroupDetail /\ [][NextGroupDetail]_vars

\* The add-students dialog: the operator searches, clicks the row of student
\* 101 and uses the dialog's buttons.
NextAddStudents ==
  \/ \E r \in ServerNewStudents : NewStudentsFetched(r)
  \/ OpenAddStudents
  \/ \E q \in {<<" ", "A", "n", " ">>, <<"b", "o", "b">>, <<"9", "9", "8">>} :
        SetSearchQuery(q)
  \/ \E st \in {101} : handleToggleStudent(st)
  \/ SelectAllFiltered
  \/ handleClearSelection
  \/ ClickAddStudents
  \/ RequestCloseAddStudents
  \/ \E i \in 1..MaxInFlight : AddStudentsSuccess(i)
  \/ \E i \in 1..MaxInFlight, err \in ApiErrors : AddStudentsError(i, err)

\* The group detail page with its group loaded, for the add-students dialog.
InitAddStudents ==
  /\ page = "groupDetail"
  /\ groupId \in {ToStr(g) : g \in GroupIds}
  /\ group \in {Some(g) : g \in {d \in ServerGroupDetails(groupId) : Len(d.students) = 2}}
  /\ event = [name |-> "adminGroupDetail.fetched", args |-> <<>>, call |-> None]
  /\ InitShared
SpecAddStudents == InitAddStudents /\ [][NextAddStudents]_vars

\* Every page that issues one of the mutations, one page per behaviour.
NextAll ==
  \* AdminNewStudents
  \/ \E s \in UNION {Range(r.new_students) : r \in ServerNewStudents} : OpenActivate(s)
  \/ \E g \in GroupIds : handleGroupChange(ToStr(g))
  \/ handleActivate
  \/ DismissActivate
  \/ CancelActivate
  \/ \E i \in 1..MaxInFlight : ActivateSuccess(i)
  \/ \E i \in 1..MaxInFlight, err \in {e \in ApiErrors : e.dataMessage # ""} :
        ActivateError(i, err)
  \/ \E r \in ServerNewStudents : NewStudentsFetched(r)
  \/ \E gl \in ServerGroupLists : GroupsFetched(gl)
  \* StudentDialog
  \/ handleAddNew
  \/ \E st \in AdminStudentRows : handleEdit(st)
  \/ \E v \in {<<"A", "n", "a">>} : SetFormData("name", v)
  \/ \E v \in {PhoneText} : SetFormData("phone", v)
  \/ \E v \in {<<"a", "@">>} : SetFormData("email", v)
  \/ \E v \in {"BLOCKED"} : SetFormData("status", v)
  \/ StudentDialog_handleSubmit
  \/ \E via \in {"onOpenChange", "cancel", "done"} : CloseStudentDialog(via)
  \/ \E i \in 1..MaxInFlight : CreateStudentSuccess(i)
  \/ \E i \in 1..MaxInFlight : UpdateStudentSuccess(i)
  \/ \E i \in 1..MaxInFlight : StudentDialog_onError(i)
  \/ \E ok \in BOOLEAN : ClipboardSettled(ok)
  \* AdminTeachers
  \/ AdminTeachers_openCreateDialog
  \/ \E tr \in TeacherRows : AdminTeachers_openEditDialog(tr)
  \/ \E v \in {<<"A", "n", "a">>} : SetTeacherForm("name", v)
  \/ \E v \in {EmailText} : SetTeacherForm("email", v)
  \/ \E v \in {<<"9", "9", "8">>} : SetTeacherForm("phone", v)
  \/ \E v \in {"assistant"} : SetTeacherForm("teacher_type", v)
  \/ AdminTeachers_handleSubmit
  \/ DismissTeacherDialog
  \/ CancelTeacherDialog
  \/ \E i \in 1..MaxInFlight : CreateTeacherSuccess(i)
  \/ \E i \in 1..MaxInFlight : UpdateTeacherSuccess(i)
  \/ \E i \in 1..MaxInFlight : AdminTeachers_onError(i)
  \/ CloseTeacherCredentials
  \* AdminGroups
  \/ AdminGroups_openCreateDialog
  \/ \E id \in GroupIds : AdminGroups_openEditDialog(id)
  \/ \E g \in {d \in ServerGroupDetails(<<"7">>) : Len(d.students) = 2} :
        EditedGroupFetched(g)
  \/ \E v \in {<<"M", "b">>, <<" ">>} : SetGroupForm("name", v)
  \/ \E v \in {<<"B", "2">>} : SetGroupForm("level", v)
  \/ \E v \in {<<"3">>, <<"4">>} : SetGroupForm("main_teacher_id", v)
  \/ \E v \in {<<"4">>, <<"n", "o", "n", "e">>} : SetGroupForm("assistant_teacher_id", v)
  \/ AdminGroups_handleSubmit
  \/ DismissGroupDialog
  \/ CancelGroupDialog
  \/ \E i \in 1..MaxInFlight : CreateGroupSuccess(i)
  \/ \E i \in 1..MaxInFlight : ListUpdateGroupSuccess(i)
  \/ \E i \in 1..MaxInFlight : AdminGroups_onError(i)
  \* AdminGroupDetail and AddStudentsDialog
  \/ \E g \in {d \in ServerGroupDetails(<<"7">>) : Len(d.students) = 2} :
        GroupDetailFetched(g)
  \/ OpenEdit
  \/ \E n \in {<<" ">>, <<"M", "b">>} : setEditGroup("name", n)
  \/ handleUpdateGroup
  \/ DismissEdit
  \/ CancelEdit
  \/ \E i \in 1..MaxInFlight : UpdateGroupSuccess(i)
  \/ \E i \in 1..MaxInFlight, err \in {e \in ApiErrors : e.dataMessage # ""} :
        UpdateGroupError(i, err)
  \/ \E c \in BOOLEAN : ClickRemoveStudent(9, c)
  \/ \E i \in 1..MaxInFlight : RemoveStudentSuccess(i)
  \/ \E i \in 1..MaxInFlight : RemoveStudentError(i)
  \/ OpenAddStudents
  \/ \E st \in {101} : handleToggleStudent(st)
  \/ SelectAllFiltered
  \/ ClickAddStudents
  \/ RequestCloseAddStudents
  \/ \E i \in 1..MaxInFlight : AddStudentsSuccess(i)
  \/ \E i \in 1..MaxInFlight, err \in {e \in ApiErrors : e.dataMessage # ""} :
        AddStudentsError(i, err)
  \* AdminPayments
  \/ \E p \in PaymentRows : OpenUpdatePayment(p)
  \/ \E v \in {<<>>, DateText} : SetStartDate(v)
  \/ \E v \in {<<>>, DateText} : SetEndDate(v)
  \/ \E via \in {"onOpenChange", "cancel"} : CloseUpdatePayment(via)
  \/ ClickSavePayment
  \/ \E i \in 1..MaxInFlight : UpdatePaymentSuccess(i)
  \/ \E i \in 1..MaxInFlight : UpdatePaymentError(i)
  \* TeacherAssignments and the teacher's GroupDetail
  \/ OpenCreateAssignment
  \/ \E v \in {<<"H", "W">>} : SetNewAssignment("title", v)
  \/ \E v \in {<<"p", "5">>} : SetNewAssignment("content", v)
  \/ \E v \in {DateText} : SetNewAssignment("due_date", v)
  \/ \E v \in {<<"8">>} : SetNewAssignment("group_id", v)
  \/ \E via \in {"onOpenChange", "cancel"} : CloseCreateAssignment(via)
  \/ TeacherAssignments_onSave
  \/ GroupDetail_onSave
  \/ \E i \in 1..MaxInFlight : CreateAssignmentSuccess(i)
  \/ \E i \in 1..MaxInFlight : CreateGroupAssignmentSuccess(i)
  \/ \E i \in 1..MaxInFlight : CreateAssignmentError(i)
  \* AssignmentReview
  \/ \E id \in SubmissionIds, v \in {<<>>, <<"1", "5", "0">>} : handleGradeChange(id, v)
  \/ \E v \in {<<"o", "k">>} : handleFeedbackChange(12, v)
  \/ \E id \in SubmissionIds : SubmissionCard_onSubmit(id)
  \/ \E i \in 1..MaxInFlight, msg \in {"", "Graded"} : GradeSuccess(i, msg)
  \/ \E i \in 1..MaxInFlight : GradeError(i)
  \* TeacherAttendance and the attendance tab of the teacher's GroupDetail
  \/ TeacherGroupsFetched
  \/ \E r \in {<<1, 2>>} : StudentsFetched(r)
  \/ \E p \in BOOLEAN : setStudentPresence(2, p)
  \/ SaveAttendance
  \/ \E i \in 1..MaxInFlight, msg \in {"", "Saved"} : SaveAttendanceSuccess(i, msg)
  \/ \E i \in 1..MaxInFlight : SaveAttendanceError(i)
  \* AdminTeachers: reset password
  \/ \E v \in {None, Some(3), Some(4)} : setResetPasswordId(v)
  \/ \E v \in {<<"a", "b", "c">>, <<"s", "e", "c", "r", "e", "t">>} : setNewPassword(v)
  \/ handleResetPassword
  \/ \E i \in 1..MaxInFlight : ResetPasswordSuccess(i)
  \/ \E i \in 1..MaxInFlight : ResetPasswordError(i)

\* Any one of the pages, mounted; a detail page is mounted for group 7.
InitAll ==
  /\ page \in {"newStudents", "students", "teachers", "groups", "groupDetail", "payments",
               "teacherAssignments", "teacherGroupDetail", "assignmentReview",
               "teacherAttendance"}
  /\ groupId = (IF page \in {"groupDetail", "teacherGroupDetail"} THEN <<"7">> ELSE <<>>)
  /\ group = None
  /\ event = [name |-> "mount", args |-> <<>>, call |-> None]
  /\ InitShared
SpecAll == InitAll /\ [][NextAll]_vars

\* The attendance page and the attendance tab, with every group, date, roster
\* and mark.
NextAttendance ==
  \/ TeacherGroupsFetched
  \/ \E g \in AttendanceGroups : setSelectedGroupId(g)
  \/ \E d \in AttendanceDates : setSelectedDate(d)
  \/ \E r \in UNION {ServerRosters(g) : g \in AttendanceGroups} : StudentsFetched(r)
  \/ \E st \in RosterIds, p \in BOOLEAN : setStudentPresence(st, p)
  \/ SaveAttendance
  \/ \E i \in 1..MaxInFlight, msg \in {"", "Saved"} : SaveAttendanceSuccess(i, msg)
  \/ \E i \in 1..MaxInFlight : SaveAttendanceError(i)

InitAttendancePages ==
  /\ page \in {"teacherAttendance", "teacherGroupDetail"}
  /\ groupId = (IF page = "teacherGroupDetail" THEN <<"7">> ELSE <<>>)
  /\ group = None
  /\ event = [name |-> "mount", args |-> <<>>, call |-> None]
  /\ InitShared
SpecAttendance == InitAttendancePages /\ [][NextAttendance]_vars

\* The texts entered into a phone field: up to MaxPhoneLen characters, digits
\* with at most one letter, separator or blank among them, and two pasted
\* numbers.
PhoneAlphabet == {"9", "a", "-", " "}
FormattedPhone ==
  <<"+", "9", "9", "8", " ", "9", "0", " ", "1", "2", "3", "-", "4", "5", "-", "6", "7">>
PhoneInputs ==
  {[i \in 1..u[1] |-> IF i = u[2] THEN u[3] ELSE "9"] :
     u \in {w \in (0..MaxPhoneLen) \X (0..MaxPhoneLen) \X PhoneAlphabet : w[2] <= w[1]}}
    \cup {PhoneText, FormattedPhone}

\* The student form of the students page and the login page, with every phone
\* text.
NextPhone ==
  \/ handleAddNew
  \/ \E st \in AdminStudentRows : handleEdit(st)
  \/ \E v \in {<<"A", "n", "a">>} : SetFormData("name", v)
  \/ \E v \in PhoneInputs : SetFormData("phone", v)
  \/ StudentDialog_handleSubmit
  \/ \E via \in {"onOpenChange", "cancel", "done"} : CloseStudentDialog(via)
  \/ \E i \in 1..MaxInFlight : CreateStudentSuccess(i)
  \/ \E i \in 1..MaxInFlight : UpdateStudentSuccess(i)
  \/ \E i \in 1..MaxInFlight : StudentDialog_onError(i)
  \/ \E v \in PhoneInputs : Login_phoneOnChange(v)
  \/ \E v \in {<<"a", "b", "c">>, <<"s", "e", "c", "r", "e", "t">>} : Login_passwordOnChange(v)
  \/ Login_handleSubmit
  \/ \E i \in 1..MaxInFlight, user \in {None, Some("Admin"), Some("Teacher"), Some("Student")} :
        LoginResolved(i, user)
  \/ \E i \in 1..MaxInFlight : LoginRejected(i)

InitPhone ==
  /\ page \in {"students", "login"}
  /\ groupId = <<>>
  /\ group = None
  /\ event = [name |-> "mount", args |-> <<>>, call |-> None]
  /\ InitShared
SpecPhone == InitPhone /\ [][NextPhone]_vars

(***************************************************************************)
(* Properties.                                                             *)
(***************************************************************************)
ActivateCalls == {i \in 1..Len(mutations) : mutations[i].kind = "activate"}
ActivateCallIssued ==
  /\ Len(mutations') = Len(mutations) + 1
  /\ mutations'[Len(mutations')].kind = "activate"
ActivationInputOk ==
  /\ SelectedStudentId > 0
  /\ selectedGroupId # <<>>
  /\ selectedLevel # <<>>

\* C1: an activation call can be issued exactly when the selected student's
\* id is > 0, the selected group id is non-empty and the derived level is
\* non-empty: with the dialog showing and no call pending the submit step is
\* possible iff the three hold, and no step issues a call when they do not.
C1_ActivationIffValid ==
  /\ []((ActivateBodyShown /\ ~isActivating /\ Len(mutations) < MaxInFlight)
          => ((ENABLED (handleActivate /\ ActivateCallIssued)) <=> ActivationInputOk))
  /\ [][ActivateCallIssued => ActivationInputOk]_vars
C1_Witness ==
  /\ ActivateCalls # {}
  /\ ActivationInputOk

\* C2: at most one activation call is outstanding in every reachable state
\* of the activate dialog.
C2_AtMostOneActivation == Cardinality(ActivateCalls) <= 1
C2_Witness ==
  /\ Cardinality(ActivateCalls) = 1
  /\ ActivateBodyShown
  /\ isActivateValid
  /\ event.name = "activateDialog.onOpenChange"

\* C3: right after an activation call succeeds the dialog is closed, the
\* selected student, group and level are cleared and exactly the new-students
\* pool, the students list and the groups list have been marked stale.
C3_ActivateSuccessEffects ==
  event.name = "activateMutation.onSuccess" =>
    /\ ~isActivateOpen
    /\ selectedStudent = None
    /\ selectedGroupId = <<>>
    /\ selectedLevel = <<>>
    /\ invalidated = {<<"newStudents">>, <<"adminStudents">>, <<"adminGroups">>}
C3_Witness ==
  /\ event.name = "activateMutation.onSuccess"
  /\ event.call[1].student_id = 1
  /\ event.call[1].group_id = 7

\* C4: right after an activation call fails the dialog is open with the
\* student, group and level of the submission, nothing has been invalidated,
\* one failure notification has been raised and the submit step is possible
\* again as it stands.
C4_ActivateFailureKeepsWorkflow ==
  event.name = "activateMutation.onError" =>
    /\ isActivateOpen
    /\ selectedStudent # None
    /\ selectedStudent[1].id = event.call[1].student_id
    /\ Number(selectedGroupId) = event.call[1].group_id
    /\ selectedLevel = event.call[1].level
    /\ invalidated = {}
    /\ toasts = <<"admin.newStudents.activateError">>
    /\ ENABLED (handleActivate /\ ActivateCallIssued)
C4_Witness ==
  /\ event.name = "activateMutation.onError"
  /\ isActivateOpen
  /\ selectedLevel = <<"B", "1">>

\* C5: in every reachable state the selected level is the level of the group
\* the selected group id names in the loaded groups list (empty when there is
\* none), and every activation call carries the selected student's id, the
\* numeric id of the chosen group and that group's level.
LevelOfSelectedGroup ==
  IF FindGroup(selectedGroupId) # None THEN FindGroup(selectedGroupId)[1].level ELSE <<>>
C5_LevelFollowsLoadedGroup ==
  /\ selectedLevel = LevelOfSelectedGroup
  /\ \A i \in ActivateCalls :
       /\ mutations[i].vars.student_id = SelectedStudentId
       /\ mutations[i].vars.group_id = Number(selectedGroupId)
       /\ mutations[i].vars.level = LevelOfSelectedGroup

\* The validation a workflow runs before it submits, by the kind of its call;
\* evaluated in the state the submit handler starts from.
ValidationPassed(kind) ==
  CASE kind = "activate" -> ActivationInputOk
    [] kind = "addStudents" ->
         /\ IsFiniteNumber(Number(groupId)) /\ Number(groupId) > 0
         /\ Cardinality(Range(selectedStudents)) \in 1..100
    [] kind = "removeStudent" -> event'.args[2]
    [] kind = "updateGroupDetail" -> validateEditGroup = NoEditErrors /\ isEditDirty
    [] kind \in {"createStudent", "updateStudent"} -> studentSchemaOk(formData)
    [] kind \in {"createTeacher", "updateTeacher"} -> teacherSchemaOk(teacherForm)
    [] kind \in {"createGroup", "updateGroup"} -> groupSchemaOk(groupForm)
    [] kind = "updatePayment" ->
         editingPayment # None /\ startDate # <<>> /\ endDate # <<>>
    [] kind = "createAssignment" ->
         /\ newAssignment.group_id # <<>> /\ newAssignment.title # <<>>
         /\ newAssignment.content # <<>> /\ newAssignment.due_date # <<>>
    [] kind = "createGroupAssignment" ->
         /\ newAssignment.title # <<>> /\ newAssignment.content # <<>>
         /\ newAssignment.due_date # <<>>
    [] kind = "gradeSubmission" ->
         gradeValue(event'.args[1]) \notin {None, Some(NaN)}
    [] kind = "saveAttendance" -> students # None /\ students[1] # <<>>
    [] kind = "resetPassword" -> resetPasswordId # None /\ Len(newPassword) >= 6

\* The event that reports the success of a call, by the kind of the call.
SuccessEventOf(kind) ==
  CASE kind = "activate" -> "activateMutation.onSuccess"
    [] kind = "addStudents" -> "addStudentsMutation.onSuccess"
    [] kind = "removeStudent" -> "removeStudentMutation.onSuccess"
    [] kind = "updateGroupDetail" -> "updateGroupMutation.onSuccess"
    [] kind = "createStudent" -> "createStudentMutation.onSuccess"
    [] kind = "updateStudent" -> "updateStudentMutation.onSuccess"
    [] kind = "createTeacher" -> "createTeacherMutation.onSuccess"
    [] kind = "updateTeacher" -> "updateTeacherMutation.onSuccess"
    [] kind = "createGroup" -> "createGroupMutation.onSuccess"
    [] kind = "updateGroup" -> "AdminGroups.updateGroupMutation.onSuccess"
    [] kind = "updatePayment" -> "updatePaymentMutation.onSuccess"
    [] kind = "createAssignment" -> "TeacherAssignments.createAssignmentMutation.onSuccess"
    [] kind = "createGroupAssignment" -> "GroupDetail.createAssignmentMutation.onSuccess"
    [] kind = "gradeSubmission" -> "gradeSubmissionMutation.onSuccess"
    [] kind = "saveAttendance" -> "saveAttendanceMutation.onSuccess"
    [] kind = "resetPassword" -> "resetPasswordMutation.onSuccess"

\* C6: in every mutation workflow (student, teacher, group, activation, add /
\* remove student, payment, assignment, grade) the steps come in the order
\* validate, submit, invalidate: a step that issues a call starts from a state
\* in which that workflow's validation passes and invalidates nothing, and a
\* step that invalidates cached collections is the success callback of a call
\* that was in flight and is answered by that step (so never a failure, and
\* never while that call is still in flight).
C6_ValidateSubmitInvalidate ==
  [][/\ Len(mutations') > Len(mutations) =>
          /\ ValidationPassed(mutations'[Len(mutations')].kind)
          /\ invalidated' = {}
     /\ invalidated' # {} =>
          \E i \in 1..Len(mutations) :
             /\ event'.name = SuccessEventOf(mutations[i].kind)
             /\ event'.call = Some(mutations[i].vars)
             /\ mutations' = [j \in 1..(Len(mutations) - 1) |->
                                IF j < i THEN mutations[j] ELSE mutations[j + 1]]]_vars
C6_Witness ==
  /\ event.name = "updatePaymentMutation.onSuccess"
  /\ event.call # None
  /\ event.call[1].start_date # <<>>
  /\ event.call[1].end_date # <<>>
  /\ invalidated = {<<"adminPayments">>, <<"adminPaymentStats">>}
  /\ mutations = <<>>

RemovalCalls == {i \in 1..Len(mutations) : mutations[i].kind = "removeStudent"}

\* C7: right after the remove button's handler ran, a declined confirmation
\* has left no removal call and an accepted one exactly one call, for the
\* clicked student and the page's group; right after a removal succeeded only
\* that group's detail has been marked stale, and not the groups list.
C7_RemoveNeedsConfirmation ==
  /\ event.name = "handleRemoveStudent" =>
       IF event.args[2]
       THEN \E i \in RemovalCalls :
              /\ RemovalCalls = {i}
              /\ mutations[i].vars.student_id = event.args[1]
              /\ mutations[i].vars.group_id = Number(groupId)
       ELSE RemovalCalls = {}
  /\ event.name = "removeStudentMutation.onSuccess" =>
       /\ invalidated = {<<"adminGroupDetail", "string">> \o groupId}
       /\ <<"adminGroups">> \notin invalidated
C7_Witness ==
  /\ event.name = "removeStudentMutation.onSuccess"
  /\ event.call[1].student_id = 42
  /\ event.call[1].group_id = 8

AddStudentsCalls == {i \in 1..Len(mutations) : mutations[i].kind = "addStudents"}

\* C8: every add-students call carries between 1 and 100 student ids, none
\* twice; and right after the Add handler ran, a selection of 1 to 100 distinct
\* ids has been sent as it is, while an empty one or one of more than 100
\* distinct ids has been rejected with an error and no call.
C8_AddStudentsPayload ==
  /\ \A i \in AddStudentsCalls :
       LET ids == mutations[i].vars.student_ids
       IN /\ Cardinality(Range(ids)) = Len(ids)
          /\ Len(ids) >= 1
          /\ Len(ids) <= 100
  /\ event.name = "handleAddStudents" =>
       LET n == Cardinality(Range(selectedStudents))
       IN IF n = 0 \/ n > 100
          THEN AddStudentsCalls = {} /\ selectionError # ""
          ELSE \E i \in AddStudentsCalls :
                 mutations[i].vars.student_ids = selectedStudents
C8_Witness ==
  \E i \in AddStudentsCalls :
    /\ Len(mutations[i].vars.student_ids) = 100
    /\ event.name = "handleAddStudents"

\* C9: a "select all filtered" step whose union of the selection and the
\* filtered ids has more than 100 distinct ids leaves the selection unchanged
\* and sets the capacity error; otherwise the selection becomes exactly that
\* union, without repeats, and the error is cleared.
C9_SelectAllRespectsLimit ==
  [][event'.name = "handleSelectAllFiltered" =>
       LET union == Range(selectedStudents) \cup Range(filteredStudents)
       IN IF Cardinality(union) > 100
          THEN /\ selectedStudents' = selectedStudents
               /\ selectionError' = "admin.groups.maxStudentsError"
          ELSE /\ Range(selectedStudents') = union
               /\ Len(selectedStudents') = Cardinality(union)
               /\ selectionError' = ""]_vars
C9_Witness ==
  /\ event.name = "handleSelectAllFiltered"
  /\ Len(selectedStudents) = 100
  /\ selectionError = ""

\* C10: right after a group update issued from the detail page's edit dialog
\* succeeded, both the groups list and that group's detail have been marked
\* stale.
C10_DetailEditInvalidatesListAndDetail ==
  event.name = "updateGroupMutation.onSuccess" =>
    {<<"adminGroups">>, <<"adminGroupDetail", "string">> \o groupId} \subseteq invalidated

\* invalidateQueries({ queryKey }) marks every query whose key starts with the
\* given key (the query client matches keys partially unless asked for exact).
partialMatchKey(filter, key) ==
  /\ Len(filter) <= Len(key)
  /\ SubSeq(key, 1, Len(filter)) = filter
MarkedStale(key) == \E f \in invalidated : partialMatchKey(f, key)

\* C11: right after an assignment creation succeeded, on the assignments page
\* or on the teacher's group page, the assignment list of the call's group and
\* the parent (all-groups) assignments list have been marked stale; right after
\* a grade submission succeeded, the submissions of the reviewed assignment and
\* the parent assignments list have been marked stale.
C11_AssignmentInvalidation ==
  /\ event.name \in {"TeacherAssignments.createAssignmentMutation.onSuccess",
                     "GroupDetail.createAssignmentMutation.onSuccess"} =>
       /\ MarkedStale(<<"teacherAssignments", "number">> \o ToStr(event.call[1].group_id))
       /\ MarkedStale(<<"teacherAssignments">>)
  /\ event.name = "gradeSubmissionMutation.onSuccess" =>
       /\ MarkedStale(<<"teacherAssignmentSubmissions", "number">>
                        \o ToStr(Number(assignmentId)))
       /\ MarkedStale(<<"teacherAssignments">>)

\* C12: right after an add-students call succeeded, that group's detail and
\* the new-students pool have been marked stale, the dialog is closed and the
\* selection (with the search text and the error) is cleared; and while an
\* add-students call is in flight no step closes the dialog but the success of
\* that call.
C12_AddStudentsSuccessCloses ==
  /\ [](event.name = "addStudentsMutation.onSuccess" =>
         /\ MarkedStale(<<"adminGroupDetail", "string">> \o groupId)
         /\ MarkedStale(<<"newStudents">>)
         /\ ~isAddStudentsOpen
         /\ selectedStudents = <<>>
         /\ searchQuery = <<>>
         /\ selectionError = "")
  /\ [][(IsPending("addStudents") /\ isAddStudentsOpen /\ ~isAddStudentsOpen')
          => event'.name = "addStudentsMutation.onSuccess"]_vars
C12_Witness ==
  /\ event.name = "addStudentsMutation.onSuccess"
  /\ event.call[1].student_ids # <<>>
  /\ ~isAddStudentsOpen
  /\ invalidated # {}

\* The row of the invalidation table for a call: the query keys of the
\* collections the table names for that mutation (none for saving attendance
\* and for resetting a password, which have no row entry).
TableRow(c) ==
  CASE c.kind \in {"createStudent", "updateStudent"} ->
         {<<"adminStudents">>, <<"newStudents">>}
    [] c.kind \in {"createTeacher", "updateTeacher"} -> {<<"adminTeachersList">>}
    [] c.kind = "createGroup" -> {<<"adminGroups">>}
    [] c.kind = "updateGroup" ->
         {<<"adminGroups">>, <<"adminGroupDetail", "number">> \o ToStr(c.vars.id)}
    [] c.kind = "updateGroupDetail" -> {<<"adminGroups">>, KeyGroupDetail(c.scope)}
    [] c.kind = "addStudents" -> {KeyGroupDetail(c.scope), <<"newStudents">>}
    [] c.kind = "removeStudent" -> {KeyGroupDetail(c.scope)}
    [] c.kind = "activate" -> {<<"newStudents">>, <<"adminStudents">>, <<"adminGroups">>}
    [] c.kind = "updatePayment" -> {<<"adminPayments">>, <<"adminPaymentStats">>}
    [] c.kind \in {"createAssignment", "createGroupAssignment"} ->
         {<<"teacherAssignments">>,
          <<"teacherAssignments", "number">> \o ToStr(c.vars.group_id)}
    [] c.kind = "gradeSubmission" ->
         {<<"teacherAssignments">>,
          <<"teacherAssignmentSubmissions", "number">> \o ToStr(Number(c.scope))}
    [] c.kind \in {"saveAttendance", "resetPassword"} -> {}

\* C13: every step that marks a cached collection stale is the success step of
\* a call that was in flight, and marks nothing outside that call's row of the
\* invalidation table; so the success of a mutation without a row entry (save
\* attendance, reset password) marks nothing, and neither does any other step.
C13_InvalidationFollowsTable ==
  [][invalidated' # {} =>
       \E i \in 1..Len(mutations) :
          /\ event'.name = SuccessEventOf(mutations[i].kind)
          /\ event'.call = Some(mutations[i].vars)
          /\ invalidated' \subseteq TableRow(mutations[i])]_vars

\* C15: a response that arrives after its dialog was closed, or after the
\* dialog was opened again for a different record, leaves the dialog state the
\* operator sees as it is: the update-payment dialog of the payments page and
\* the group dialog of the groups list are neither closed nor cleared by the
\* success or failure of a call that was submitted for another record.
C15_StaleResponseGuard ==
  [][\A i \in 1..Len(mutations) :
       (Len(mutations') < Len(mutations) /\ event'.call = Some(mutations[i].vars)) =>
         /\ (/\ mutations[i].kind = "updatePayment"
             /\ (~isUpdateOpen \/ editingPayment = None
                    \/ editingPayment[1].id # mutations[i].vars.id))
              => UNCHANGED paymentVars
         /\ (/\ mutations[i].kind = "updateGroup"
             /\ (~isDialogOpen \/ editingGroupId # Some(mutations[i].vars.id)))
              => UNCHANGED <<isDialogOpen, editingGroupId, groupForm>>
         /\ (/\ mutations[i].kind = "createGroup"
             /\ (~isDialogOpen \/ editingGroupId # None))
              => UNCHANGED <<isDialogOpen, editingGroupId, groupForm>>]_vars

\* The events that report the failure of a call.
ErrorEvents ==
  {"activateMutation.onError", "updateGroupMutation.onError",
   "removeStudentMutation.onError", "addStudentsMutation.onError",
   "createStudentMutation.onError", "updateStudentMutation.onError",
   "createTeacherMutation.onError", "updateTeacherMutation.onError",
   "createGroupMutation.onError", "AdminGroups.updateGroupMutation.onError",
   "updatePaymentMutation.onError", "createAssignmentMutation.onError",
   "gradeSubmissionMutation.onError", "saveAttendanceMutation.onError",
   "resetPasswordMutation.onError"}

\* The workflow shows the submission `v` that the failure event `name` answers:
\* its dialog is open for the same record and every input holds the value that
\* was submitted.
ShowsSubmission(name, v) ==
  CASE name = "activateMutation.onError" ->
         /\ isActivateOpen /\ selectedStudent # None
         /\ selectedStudent[1].id = v.student_id
         /\ Number(selectedGroupId) = v.group_id /\ selectedLevel = v.level
    [] name = "updateGroupMutation.onError" ->
         /\ isEditOpen
         /\ UpdateGroupBody([editGroup EXCEPT !.name = Trim(editGroup.name),
                                              !.level = Trim(editGroup.level)]) = v
    [] name = "addStudentsMutation.onError" ->
         isAddStudentsOpen /\ selectedStudents = v.student_ids
    [] name = "createStudentMutation.onError" ->
         isStudentDialogOpen /\ studentToEdit = None /\ formData = v.data
    [] name = "updateStudentMutation.onError" ->
         /\ isStudentDialogOpen /\ studentToEdit # None
         /\ studentToEdit[1].id = v.id /\ formData = v.data
    [] name = "createTeacherMutation.onError" ->
         isDialogOpen /\ editingTeacherId = None /\ teacherForm = v.data
    [] name = "updateTeacherMutation.onError" ->
         isDialogOpen /\ editingTeacherId = Some(v.id) /\ teacherForm = v.data
    [] name = "createGroupMutation.onError" ->
         isDialogOpen /\ editingGroupId = None /\ GroupBody(groupForm) = v.body
    [] name = "AdminGroups.updateGroupMutation.onError" ->
         isDialogOpen /\ editingGroupId = Some(v.id) /\ GroupBody(groupForm) = v.body
    [] name = "updatePaymentMutation.onError" ->
         /\ isUpdateOpen /\ editingPayment # None /\ editingPayment[1].id = v.id
         /\ startDate = v.start_date /\ endDate = v.end_date
    [] name = "createAssignmentMutation.onError" ->
         /\ isCreateOpen
         /\ newAssignment.title = v.title /\ newAssignment.content = v.content
         /\ newAssignment.due_date = v.due_date
    [] name = "resetPasswordMutation.onError" ->
         resetPasswordId = Some(v.id) /\ newPassword = v.password
    [] name = "gradeSubmissionMutation.onError" ->
         gradeValue(v.submissionId) = Some(v.grade)
    [] name \in {"removeStudentMutation.onError", "saveAttendanceMutation.onError"} ->
         TRUE

\* C16: when a submitted call fails, exactly one notification is raised and
\* the workflow is back in its pre-submission state: the dialog is open for
\* the submitted record and its inputs hold the submitted values, so that the
\* same data can be submitted again.
C16_FailureRestoresSubmission ==
  event.name \in ErrorEvents =>
     /\ Len(toasts) = 1
     /\ ShowsSubmission(event.name, event.call[1])

\* C17: the client does not set a student's lifecycle status: a step that
\* issues the edit-student update sends the status the server reported for the
\* student being edited, and a step that issues the create-student call sends
\* none of ACTIVE, EXPIRED and BLOCKED (only the activation call makes a
\* student ACTIVE).
C17_StatusNotSetByClient ==
  [][Len(mutations') > Len(mutations) =>
       LET c == mutations'[Len(mutations')] IN
         /\ c.kind = "updateStudent" =>
               studentToEdit # None /\ c.vars.data.status = studentToEdit[1].status
         /\ c.kind = "createStudent" =>
               c.vars.data.status \notin {"ACTIVE", "EXPIRED", "BLOCKED"}]_vars

\* The operator's mark of a student for a group and date, as the page keeps it.
MarkOf(abk, key, studentId) ==
  IF abk[key] = None THEN "unmarked" ELSE abk[key][1][studentId]

\* C18: a step that issues the save-attendance call starts while no save is in
\* flight and sends the shown group and date with one entry per student of the
\* loaded roster, in roster order, each is_present being the student's mark for
\* that group and date (present when never marked); a mark changes only by the
\* operator's click on a row of the shown group and date, one student at a
\* time, or from never marked to present; and at most one save is in flight.
C18_AttendanceSavedWhole ==
  /\ [][(/\ Len(mutations') > Len(mutations)
          /\ mutations'[Len(mutations')].kind = "saveAttendance") =>
          LET c == mutations'[Len(mutations')].vars
              key == <<attendanceGroup, selectedDate>>
          IN /\ \A i \in 1..Len(mutations) : mutations[i].kind # "saveAttendance"
             /\ c.group_id = Number(attendanceGroup) /\ c.date = selectedDate
             /\ students # None /\ students[1] # <<>>
             /\ Len(c.attendance) = Len(students[1])
             /\ \A k \in 1..Len(students[1]) :
                   /\ c.attendance[k].student_id = students[1][k]
                   /\ c.attendance[k].is_present =
                        (MarkOf(attendanceByKey, key, students[1][k]) # "absent")]_vars
  /\ [][\A key \in DOMAIN attendanceByKey :
          LET changed == {s \in RosterIds : MarkOf(attendanceByKey', key, s)
                                               # MarkOf(attendanceByKey, key, s)}
          IN changed # {} =>
               \/ /\ event'.name = "setStudentPresence"
                  /\ key = <<attendanceGroup, selectedDate>>
                  /\ Cardinality(changed) = 1
                  /\ \A s \in changed :
                        MarkOf(attendanceByKey', key, s) \in {"present", "absent"}
               \/ \A s \in changed :
                     /\ MarkOf(attendanceByKey, key, s) = "unmarked"
                     /\ MarkOf(attendanceByKey', key, s) = "present"]_vars
  /\ [](Cardinality({i \in 1..Len(mutations) : mutations[i].kind = "saveAttendance"}) <= 1)

\* A save was issued for a roster of two students, the first marked absent and
\* the second never marked.
C18_Witness ==
  /\ event.name = "saveAttendance.onClick"
  /\ \E i \in 1..Len(mutations) :
       /\ mutations[i].kind = "saveAttendance"
       /\ Len(mutations[i].vars.attendance) = 2
       /\ ~mutations[i].vars.attendance[1].is_present
       /\ mutations[i].vars.attendance[2].is_present
       /\ MarkOf(attendanceByKey, <<attendanceGroup, selectedDate>>, 2) = "unmarked"

\* A group form whose assistant teacher is set and is the main teacher.
AssistantIsMain(form) ==
  form.assistant_teacher_id # <<>> /\ form.assistant_teacher_id = form.main_teacher_id

\* C19: no step issues a create-group or update-group call from a form whose
\* assistant teacher is the main teacher, from the dialog of the groups list
\* (handleSubmit) and from the edit dialog of the group page
\* (handleUpdateGroup), and while the latter shows such a form its validation
\* reports the "assistant must differ" error.
C19_AssistantMustDiffer ==
  /\ [][Len(mutations') > Len(mutations) =>
          LET kind == mutations'[Len(mutations')].kind IN
            /\ kind \in {"createGroup", "updateGroup"} => ~AssistantIsMain(groupForm)
            /\ kind = "updateGroupDetail" => ~AssistantIsMain(editGroup)]_vars
  /\ []((DetailPageShown /\ isEditOpen /\ AssistantIsMain(editGroup)) =>
          validateEditGroup.assistant_teacher_id = "admin.groups.detail.assistantDifferent")

\* C20: a step that issues a create-group or update-group call sends a name
\* that is not empty after trimming, a level that is not empty and a main
\* teacher; while a group form has a blank name its validation reports the
\* "name required" error of its page.
C20_GroupFieldsRequired ==
  /\ [][Len(mutations') > Len(mutations) =>
          LET c == mutations'[Len(mutations')] IN
            /\ c.kind \in {"createGroup", "updateGroup"} =>
                  /\ Trim(c.vars.body.name) # <<>>
                  /\ Trim(c.vars.body.level) # <<>>
                  /\ c.vars.body.main_teacher_id \notin {0, NaN}
            /\ c.kind = "updateGroupDetail" =>
                  /\ Trim(c.vars.name) # <<>>
                  /\ Trim(c.vars.level) # <<>>
                  /\ c.vars.main_teacher_id \notin {0, NaN}]_vars
  /\ []((page = "groups" /\ isDialogOpen /\ Trim(groupForm.name) = <<>>) =>
          fieldErrors(groupForm).name = "Group name is required")
  /\ []((DetailPageShown /\ isEditOpen /\ Trim(editGroup.name) = <<>>) =>
          validateEditGroup.name = "admin.groups.detail.nameRequired")

\* The dialog of the groups list holds a blank name next to a level and a main
\* teacher, and no call is in flight.
C20_Witness ==
  /\ page = "groups" /\ isDialogOpen
  /\ event.name = "groupForm.onChange"
  /\ groupForm.name = <<" ">>
  /\ groupForm.level # <<>> /\ groupForm.main_teacher_id # <<>>
  /\ mutations = <<>>

\* C22: a step that issues a create-teacher or update-teacher call sends a
\* phone of exactly 12 digits (not empty, no other length, no separator or
\* other non-digit).
C22_TeacherPhoneTwelveDigits ==
  [][Len(mutations') > Len(mutations) =>
       LET c == mutations'[Len(mutations')] IN
         c.kind \in {"createTeacher", "updateTeacher"} => IsPhone12(c.vars.data.phone)]_vars

\* C23: choosing the "none" item of the assistant-teacher Select leaves a form
\* value that differs from the value of a form whose assistant teacher was not
\* chosen yet, in the dialog of the groups list and in the edit dialog of the
\* group page.
C23_NoneDistinctFromUnset ==
  [][/\ SetGroupForm("assistant_teacher_id", <<"n", "o", "n", "e">>) =>
          groupForm'.assistant_teacher_id # EmptyGroupForm.assistant_teacher_id
     /\ setEditGroup("assistant_teacher_id", <<"n", "o", "n", "e">>) =>
          editGroup'.assistant_teacher_id # EmptyGroupForm.assistant_teacher_id]_vars

\* C24: while the edit dialog of the group page is open, the baseline of its
\* dirty-check is the form of the loaded group, and a step that issues the
\* update call starts from a form that differs from that baseline in the
\* trimmed name, the trimmed level, the main teacher or the assistant teacher
\* ("" for none); so an edit that only adds or removes surrounding whitespace,
\* or returns every field to its loaded value, issues no call.
C24_UpdateOnlyWhenDirty ==
  /\ []((DetailPageShown /\ isEditOpen) => initialEditGroup = Some(FormOfGroup(group[1])))
  /\ [][(/\ Len(mutations') > Len(mutations)
          /\ mutations'[Len(mutations')].kind = "updateGroupDetail") =>
          /\ initialEditGroup # None
          /\ \/ Trim(editGroup.name) # Trim(initialEditGroup[1].name)
             \/ Trim(editGroup.level) # Trim(initialEditGroup[1].level)
             \/ editGroup.main_teacher_id # initialEditGroup[1].main_teacher_id
             \/ editGroup.assistant_teacher_id
                  # initialEditGroup[1].assistant_teacher_id]_vars

\* An update was issued from a form whose name has a trailing blank: the call
\* carries the trimmed name.
C24_Witness ==
  /\ event.name = "handleUpdateGroup"
  /\ editGroup.name # Trim(editGroup.name)
  /\ initialEditGroup # None
  /\ Trim(editGroup.name) = Trim(initialEditGroup[1].name)
  /\ \E i \in 1..Len(mutations) :
       mutations[i].kind = "updateGroupDetail" /\ mutations[i].vars.name = Trim(editGroup.name)

\* C27: while the edit dialog of the group page stays open, the edited fields
\* and the baseline of the dirty-check change only by the operator's input in
\* a field of the form; a response of the group's detail query that arrives
\* meanwhile does not overwrite them.
C27_RefetchKeepsEdits ==
  [][(/\ page = "groupDetail" /\ isEditOpen /\ isEditOpen'
      /\ <<editGroup, initialEditGroup>>' # <<editGroup, initialEditGroup>>)
       => event'.name = "setEditGroup"]_vars

\* C25: the notification of a failed call shows the first non-empty one of the
\* error's response.data.message, response.data.error and message (and the
\* caller's fallback text when all three are empty).
C25_ErrorMessagePreference ==
  (event.name \in ErrorEvents /\ event.args # <<>>) =>
     LET err == event.args[1] IN
       /\ Len(toasts) = 1
       /\ err.dataMessage # "" => toasts[1] = err.dataMessage
       /\ (err.dataMessage = "" /\ err.dataError # "") => toasts[1] = err.dataError
       /\ (err.dataMessage = "" /\ err.dataError = "" /\ err.message # "") =>
             toasts[1] = err.message

\* C26: in the edit dialog of the groups list, no step issues the update call
\* for a group whose own detail has not arrived from a form that still holds
\* the values loaded for another group, whatever sequence of open-edit,
\* dismiss and open-edit-another-group events came before.
C26_UpdateCarriesOwnDetail ==
  [][(/\ Len(mutations') > Len(mutations)
      /\ mutations'[Len(mutations')].kind = "updateGroup") =>
      /\ editingGroupId # None
      /\ groupDetails[editingGroupId[1]] = None =>
            \A h \in DOMAIN groupDetails \ {editingGroupId[1]} :
               groupDetails[h] = None \/ groupForm # FormOfGroup(groupDetails[h][1])]_vars

\* C29: the two edit paths of a group accept the same form values: while the
\* dialog of the groups list edits a group, its schema accepts the form (so
\* that Save issues the update call) exactly when the validation of the edit
\* dialog of the group page reports no error for the same values.
C29_EditValidatorsAgree ==
  (page = "groups" /\ isDialogOpen /\ editingGroupId # None) =>
     (groupSchemaOk(groupForm) <=> validateEditGroupOf(groupForm) = NoEditErrors)

\* C30: a step of the assignment review page that issues a grade call sends a
\* grade between 0 and 100 inclusive, which is the number entered into the
\* card's grade field or, when nothing was entered, the grade stored for the
\* submission; a card with no entered and no stored grade issues no call.
C30_GradeInRange ==
  [][(/\ Len(mutations') > Len(mutations)
      /\ mutations'[Len(mutations')].kind = "gradeSubmission") =>
      LET c == mutations'[Len(mutations')] IN
        /\ gradeValue(c.vars.submissionId) = Some(c.vars.grade)
        /\ c.vars.grade \in 0..100]_vars

\* C28: on the attendance page the displayed counts of present, absent and
\* unmarked students add up to the number of students of the loaded roster,
\* and the displayed count of present students is the number of entries with
\* is_present = true that a save would send, whatever groups and dates were
\* selected, rosters loaded and marks set before.
C28_CountsMatchRoster ==
  page = "teacherAttendance" =>
    /\ presentCount + absentCount + unmarkedCount = totalStudents
    /\ students # None =>
          presentCount =
            Cardinality({k \in 1..Len(students[1]) :
                           attendanceForSelection[students[1][k]] # "absent"})

\* Exactly 12 characters, each one of the ASCII digits.
TwelveAsciiDigits(p) ==
  /\ Len(p) = 12
  /\ \A i \in 1..Len(p) : p[i] \in {"0", "1", "2", "3", "4", "5", "6", "7", "8", "9"}

\* C21: the validator of the student form and the validator of the login form
\* accept a phone exactly when it consists of exactly 12 ASCII digits: with
\* the other fields valid, the student schema accepts the form's phone iff it
\* is 12 digits; the login schema accepts the text given to the phone field
\* and the phone kept in the state iff they are 12 digits; and a step that
\* issues a create-student, update-student or login call sends 12 digits.
C21_PhoneExactlyTwelveDigits ==
  /\ [](StudentFormShown =>
          (studentSchemaOk([formData EXCEPT !.name = <<"A">>, !.email = <<>>,
                                            !.payment_expiry = <<>>])
             <=> TwelveAsciiDigits(formData.phone)))
  /\ [](page = "login" =>
          /\ loginSchemaOk([phone |-> phone, password |-> <<"s", "e", "c", "r", "e", "t">>])
                <=> TwelveAsciiDigits(phone)
          /\ event.name = "Login.phone.onChange" =>
                (loginSchemaOk([phone |-> event.args[1],
                                password |-> <<"s", "e", "c", "r", "e", "t">>])
                   <=> TwelveAsciiDigits(event.args[1])))
  /\ [][Len(mutations') > Len(mutations) =>
          LET c == mutations'[Len(mutations')] IN
            /\ c.kind \in {"createStudent", "updateStudent"} =>
                  TwelveAsciiDigits(c.vars.data.phone)
            /\ c.kind = "login" => TwelveAsciiDigits(c.vars.phone)]_vars

\* The student form holds a text of 13 characters that contains 12 digits in
\* a row, and the login page was given one.
C21_Witness ==
  \/ /\ StudentFormShown
     /\ Len(formData.phone) = 13
     /\ \E k \in 1..2 : \A i \in k..(k + 11) : IsDigit(formData.phone[i])
  \/ /\ page = "login"
     /\ event.name = "Login.phone.onChange"
     /\ Len(event.args[1]) = 13
     /\ \E k \in 1..2 : \A i \in k..(k + 11) : IsDigit(event.args[1][i])

====
